---- MODULE Spec2Model ----
(***************************************************************************)
(* Verification model of openmun-opendata: the geodata API framework       *)
(* (fetch / cache / fallback), the three geodata APIs built on it and the  *)
(* canton enrichment of the Municipalities API.                            *)
(***************************************************************************)
EXTENDS Integers, Sequences, FiniteSets, TLC

VARIABLES
    args,     \* constructor arguments of the API instance under study
    api,      \* the API instance (BaseGeoAPI fields + subclass fields)
    fs,       \* file system: directory -> file name -> content
    denied,   \* directories whose entries cannot be stat'ed / opened (EACCES)
    today,    \* the current date (datetime.now())
    last,     \* outcome of the last operation, as seen by the caller
    calls,    \* number of operations issued so far
    hist,     \* history: what has happened since Init
    pc,       \* per thread: position inside _get_enriched_data
    tl,       \* per thread: locals of _get_enriched_data
    snap,     \* the list handed to _enrich_with_cantons
    out       \* the list _enrich_with_cantons returned

vars == <<args, api, fs, denied, today, last, calls, hist, pc, tl, snap, out>>

(***************************************************************************)
(* Bounds of the model.                                                    *)
(***************************************************************************)
MaxCalls == 3
MaxDay == 2
MaxRows == 7

None == "None"
OK == "ok"

Days == 1..MaxDay

(***************************************************************************)
(* Directories and file names.                                             *)
(***************************************************************************)
DefaultDir == "sources/swisstopo"
Dirs == {DefaultDir, "dirA", "dirB"}

PostalZip == [base |-> "ortschaftenverzeichnis_plz_2056.csv.zip", date |-> 0]
StreetsZip == [base |-> "amtliches-strassenverzeichnis_ch_2056.csv.zip", date |-> 0]
StreetsCsv == [base |-> "amtliches-strassenverzeichnis_ch_2056.csv", date |-> 0]
MuniCsv(d) == [base |-> "bfs_municipalities", date |-> d]

Files == {PostalZip, StreetsZip, StreetsCsv} \cup {MuniCsv(d) : d \in Days}

PostalMember == "AMTOVZ_CSV_LV95/AMTOVZ_CSV_LV95.csv"
CsvNames == {PostalMember, "other.csv", StreetsCsv.base}

EndsWithCsv(name) == name \in CsvNames

(***************************************************************************)
(* File contents.  Bytes and text carry the number of leading byte order   *)
(* marks and an identifier of the CSV body that follows them.              *)
(***************************************************************************)
Absent == [t |-> "absent"]
Garbage == [t |-> "garbage"]
Bytes(bom, body) == [bom |-> bom, body |-> body]
CsvFile(bom, body) == [t |-> "csv", bom |-> bom, body |-> body]
ZipFile(members) == [t |-> "zip", members |-> members]
Member(name, bom, body) == [name |-> name, data |-> Bytes(bom, body)]

DecodeUtf8(b) == [bom |-> b.bom, body |-> b.body]
DecodeUtf8Sig(b) == [bom |-> IF b.bom > 0 THEN b.bom - 1 ELSE 0, body |-> b.body]
EncodeUtf8(s) == Bytes(s.bom, s.body)

NoText == [bom |-> 0, body |-> None]

(***************************************************************************)
(* Results of the framework operations.  err is OK or the name of the     *)
(* exception raised; msg is the text the exception carries; events is the  *)
(* sequence of I/O steps performed ("net": a network request, "write": a   *)
(* cache write, "read": a local stat/read, "remote"/"fallback": the        *)
(* invocation of fetch_func / fallback_func).                              *)
(***************************************************************************)
Result(err, msg, text, fsys, events) ==
    [err |-> err, msg |-> msg, text |-> text, fs |-> fsys, events |-> events]

\* An initialiser that drops the fallback_allowed argument.
BaseGeoAPI_init_permissive(fallback_allowed, cache_dir, sources_dir) ==
    [fallback_allowed |-> TRUE,
     cache_dir |-> IF cache_dir # None THEN cache_dir ELSE DefaultDir,
     sources_dir |-> IF sources_dir # None THEN sources_dir ELSE DefaultDir]

\* BaseGeoAPI.__init__: sources_dir does not follow an overridden cache_dir.
BaseGeoAPI_init(fallback_allowed, cache_dir, sources_dir) ==
    [fallback_allowed |-> fallback_allowed,
     cache_dir |-> IF cache_dir # None THEN cache_dir ELSE DefaultDir,
     sources_dir |-> IF sources_dir # None THEN sources_dir ELSE DefaultDir]

\* BaseGeoAPI._download_file(url, destination): resp is what urlopen yields.
BaseGeoAPI_download_file(fsys, den, resp, dir, file) ==
    IF ~resp.ok
    THEN Result("RemoteFetchError", resp.why, NoText, fsys, <<"net">>)
    ELSE IF dir \in den
    THEN Result("RemoteFetchError", "PermissionError", NoText, fsys, <<"net">>)
    ELSE [err |-> OK, msg |-> "", text |-> NoText, content |-> resp.body,
          fs |-> [fsys EXCEPT ![dir][file] = resp.body],
          events |-> <<"net", "write">>]

\* BaseGeoAPI._extract_csv_from_zip(zip_content, csv_filename)
BaseGeoAPI_extract_csv_from_zip(zip_content, csv_filename) ==
    IF zip_content.t # "zip"
    THEN [err |-> "GeoAPIError", msg |-> "Invalid ZIP file", text |-> NoText]
    ELSE LET names == zip_content.members
             csv_files == SelectSeq(names, LAMBDA m : EndsWithCsv(m.name))
             named == SelectSeq(names, LAMBDA m : m.name = csv_filename)
         IN  IF csv_files = <<>>
             THEN [err |-> "GeoAPIError", msg |-> "Failed to extract CSV", text |-> NoText]
             ELSE IF csv_filename # None
             THEN IF named = <<>>
                  THEN [err |-> "GeoAPIError", msg |-> "Failed to extract CSV", text |-> NoText]
                  ELSE [err |-> OK, msg |-> "", text |-> DecodeUtf8(named[1].data)]
             ELSE [err |-> OK, msg |-> "", text |-> DecodeUtf8(csv_files[1].data)]

\* A fallback that looks in cache_dir instead of sources_dir.
BaseGeoAPI_read_local_csv_cache_dir(self, fsys, den, filename, from_zip) ==
    LET content == fsys[self.cache_dir][filename]
    IN  IF content.t = "csv" /\ ~from_zip
        THEN [err |-> OK, msg |-> "", text |-> DecodeUtf8Sig(content), events |-> <<"read">>]
        ELSE IF content.t = "zip" /\ from_zip
                /\ \E i \in DOMAIN content.members : EndsWithCsv(content.members[i].name)
        THEN [err |-> OK, msg |-> "",
              text |-> DecodeUtf8(SelectSeq(content.members,
                                            LAMBDA m : EndsWithCsv(m.name))[1].data),
              events |-> <<"read">>]
        ELSE [err |-> "NoFallbackDataError", msg |-> "not found", text |-> NoText,
              events |-> <<"read">>]

\* BaseGeoAPI._read_local_csv(filename, from_zip).  Path.exists() sits outside
\* the try blocks: a stat refused with EACCES leaves as PermissionError.
BaseGeoAPI_read_local_csv(self, fsys, den, filename, from_zip) ==
    LET content == fsys[self.sources_dir][filename]
    IN  IF self.sources_dir \in den
        THEN [err |-> "PermissionError", msg |-> "", text |-> NoText, events |-> <<"read">>]
        ELSE IF content.t = "absent"
        THEN [err |-> "NoFallbackDataError", msg |-> "not found", text |-> NoText,
              events |-> <<"read">>]
        ELSE IF from_zip
        THEN LET r == BaseGeoAPI_extract_csv_from_zip(content, None)
             IN  IF r.err = OK
                 THEN [err |-> OK, msg |-> "", text |-> r.text, events |-> <<"read">>]
                 ELSE [err |-> "NoFallbackDataError", msg |-> "Failed to read fallback ZIP",
                       text |-> NoText, events |-> <<"read">>]
        ELSE IF content.t = "csv"
        THEN [err |-> OK, msg |-> "", text |-> DecodeUtf8Sig(content), events |-> <<"read">>]
        ELSE [err |-> "NoFallbackDataError", msg |-> "Failed to read fallback CSV",
              text |-> NoText, events |-> <<"read">>]

\* A retry loop around fetch_func, which the code does not have.
BaseGeoAPI_fetch_or_fallback_retry(self, fetch, fallback, error_context) ==
    IF fetch.err = OK
    THEN [err |-> OK, msg |-> <<>>, text |-> fetch.text, fs |-> fetch.fs,
          events |-> <<"remote">> \o fetch.events]
    ELSE [err |-> "NoFallbackDataError", msg |-> <<error_context, fetch.msg>>,
          text |-> NoText, fs |-> fetch.fs,
          events |-> <<"remote">> \o fetch.events \o <<"remote">> \o fetch.events]

\* `except GeoAPIError`: the base class instead of RemoteFetchError.
except_GeoAPIError(err) == err \in {"GeoAPIError", "RemoteFetchError", "NoFallbackDataError"}

\* `except RemoteFetchError as e` around fetch_func()
except_RemoteFetchError(err) == err = "RemoteFetchError"

\* BaseGeoAPI._fetch_or_fallback(fetch_func, fallback_func, error_context).
\* fetch is the outcome of fetch_func(); fallback is the outcome fallback_func()
\* has on the file system fetch_func() left, used only where the code calls it.
BaseGeoAPI_fetch_or_fallback(self, fetch, fallback, error_context) ==
    IF fetch.err = OK
    THEN [err |-> OK, msg |-> <<>>, text |-> fetch.text, fs |-> fetch.fs,
          events |-> <<"remote">> \o fetch.events]
    ELSE IF ~except_RemoteFetchError(fetch.err)
    THEN [err |-> fetch.err, msg |-> <<fetch.msg>>, text |-> NoText, fs |-> fetch.fs,
          events |-> <<"remote">> \o fetch.events]
    ELSE IF ~self.fallback_allowed
    THEN [err |-> "NoFallbackDataError", msg |-> <<error_context, fetch.msg>>,
          text |-> NoText, fs |-> fetch.fs, events |-> <<"remote">> \o fetch.events]
    ELSE IF fallback.err = OK
    THEN [err |-> OK, msg |-> <<>>, text |-> fallback.text, fs |-> fetch.fs,
          events |-> <<"remote">> \o fetch.events \o <<"fallback">> \o fallback.events]
    ELSE IF fallback.err = "NoFallbackDataError"
    THEN [err |-> "NoFallbackDataError", msg |-> <<error_context, fetch.msg>>,
          text |-> NoText, fs |-> fetch.fs,
          events |-> <<"remote">> \o fetch.events \o <<"fallback">> \o fallback.events]
    ELSE [err |-> fallback.err, msg |-> <<fallback.msg>>, text |-> NoText, fs |-> fetch.fs,
          events |-> <<"remote">> \o fetch.events \o <<"fallback">> \o fallback.events]

(***************************************************************************)
(* The three APIs: version setup, remote fetch and fallback.               *)
(***************************************************************************)
Kinds == {"postal", "streets", "municipalities"}

\* A version setup without the else branch.
PostalCodesAPI_setup_version_any(model_version) ==
    [err |-> OK, zip_filename |-> PostalZip, csv_filename |-> PostalZip,
     csv_path_in_zip |-> PostalMember]

\* PostalCodesAPI._setup_version
PostalCodesAPI_setup_version(model_version) ==
    IF model_version = "v1"
    THEN [err |-> OK, zip_filename |-> PostalZip, csv_filename |-> PostalZip,
          csv_path_in_zip |-> PostalMember]
    ELSE [err |-> "GeoAPIError", zip_filename |-> PostalZip, csv_filename |-> PostalZip,
          csv_path_in_zip |-> None]

\* StreetsAPI._setup_version
StreetsAPI_setup_version(model_version) ==
    IF model_version = "v1"
    THEN [err |-> OK, zip_filename |-> StreetsZip, csv_filename |-> StreetsCsv,
          csv_path_in_zip |-> None]
    ELSE [err |-> "GeoAPIError", zip_filename |-> StreetsZip, csv_filename |-> StreetsCsv,
          csv_path_in_zip |-> None]

\* MunicipalitiesAPI._setup_version: the cache file is named after reference_date.
MunicipalitiesAPI_setup_version(model_version, reference_date) ==
    IF model_version = "v1"
    THEN [err |-> OK, zip_filename |-> MuniCsv(reference_date),
          csv_filename |-> MuniCsv(reference_date), csv_path_in_zip |-> None]
    ELSE [err |-> "GeoAPIError", zip_filename |-> MuniCsv(reference_date),
          csv_filename |-> MuniCsv(reference_date), csv_path_in_zip |-> None]

NoApi ==
    [state |-> "none", kind |-> None, fallback_allowed |-> FALSE, cache_dir |-> DefaultDir,
     sources_dir |-> DefaultDir, model_version |-> None, reference_date |-> 0,
     zip_filename |-> PostalZip, csv_filename |-> PostalZip, csv_path_in_zip |-> None,
     enriched_cache |-> <<>>]

\* PostalCodesAPI.__init__ / StreetsAPI.__init__ / MunicipalitiesAPI.__init__:
\* the base initialiser, then the version setup; the memo starts unset (<<>>).
\* a.reference_date = 0 stands for reference_date=None (then: the current date).
NewAPI(a, now) ==
    LET base == BaseGeoAPI_init(a.fallback_allowed, a.cache_dir, a.sources_dir)
        date == IF a.kind = "municipalities"
                THEN (IF a.reference_date # 0 THEN a.reference_date ELSE now)
                ELSE 0
        v == CASE a.kind = "postal" -> PostalCodesAPI_setup_version(a.model_version)
               [] a.kind = "streets" -> StreetsAPI_setup_version(a.model_version)
               [] OTHER -> MunicipalitiesAPI_setup_version(a.model_version, date)
    IN  [err |-> v.err,
         api |-> IF v.err # OK THEN NoApi
                 ELSE [state |-> "ready", kind |-> a.kind,
                       fallback_allowed |-> base.fallback_allowed,
                       cache_dir |-> base.cache_dir, sources_dir |-> base.sources_dir,
                       model_version |-> a.model_version, reference_date |-> date,
                       zip_filename |-> v.zip_filename, csv_filename |-> v.csv_filename,
                       csv_path_in_zip |-> v.csv_path_in_zip, enriched_cache |-> <<>>]]

\* PostalCodesAPI._fetch_remote: download (and cache) the ZIP, then extract the
\* member csv_path_in_zip.
PostalCodesAPI_fetch_remote(self, fsys, den, net) ==
    LET d == BaseGeoAPI_download_file(fsys, den, net.dl, self.cache_dir, self.zip_filename)
    IN  IF d.err # OK THEN d
        ELSE LET x == BaseGeoAPI_extract_csv_from_zip(d.content, self.csv_path_in_zip)
             IN  Result(x.err, x.msg, x.text, d.fs, d.events)

\* PostalCodesAPI._fetch_fallback
PostalCodesAPI_fetch_fallback(self, fsys, den) ==
    BaseGeoAPI_read_local_csv(self, fsys, den, self.zip_filename, TRUE)

\* BaseGeoAPI._get_stac_collection_items + StreetsAPI._fetch_remote: find the
\* item, find the asset, download (and cache) the ZIP, extract the first CSV.
StreetsItemId == "amtliches-strassenverzeichnis_ch"

\* The loop over items_data['features'] from position i: the index of the
\* first feature whose id is the item id (0: none; -1: feature['id'] raised
\* KeyError on a feature without an id before one was found).
RECURSIVE find_ch_item(_, _)
find_ch_item(features, i) ==
    IF i > Len(features) THEN 0
    ELSE IF features[i].id = None THEN -1
    ELSE IF features[i].id = StreetsItemId THEN i
    ELSE find_ch_item(features, i + 1)

\* assets.get(self.zip_filename): the index of the asset of that name
\* (0: None).
assets_get(assets, name) ==
    LET at == {i \in 1..Len(assets) : assets[i].name = name}
    IN  IF at = {} THEN 0 ELSE CHOOSE i \in at : TRUE

\* The truth value of an asset mapping: an empty mapping is falsy.
asset_truthy(asset) == asset.href # None \/ asset.type # None

StreetsAPI_fetch_remote(self, fsys, den, net) ==
    IF ~net.stac.ok
    THEN Result("RemoteFetchError", net.stac.why, NoText, fsys, <<"net">>)
    ELSE LET i == find_ch_item(net.stac.features, 1)
         IN  IF i = -1
             THEN Result("KeyError", "id", NoText, fsys, <<"net">>)
             ELSE IF i = 0
             THEN Result("RemoteFetchError", "Could not find item", NoText, fsys, <<"net">>)
             ELSE LET assets == net.stac.features[i].assets
                      a == assets_get(assets, self.zip_filename.base)
                  IN  IF a = 0 \/ ~asset_truthy(assets[a])
                      THEN Result("RemoteFetchError", "Could not find CSV asset", NoText,
                                  fsys, <<"net">>)
                      ELSE IF assets[a].href = None
                      THEN Result("KeyError", "href", NoText, fsys, <<"net">>)
                      ELSE LET d == BaseGeoAPI_download_file(fsys, den, net.dl,
                                                             self.cache_dir,
                                                             self.zip_filename)
                           IN  IF d.err # OK
                               THEN Result(d.err, d.msg, NoText, d.fs, <<"net">> \o d.events)
                               ELSE LET x == BaseGeoAPI_extract_csv_from_zip(d.content, None)
                                    IN  Result(x.err, x.msg, x.text, d.fs,
                                               <<"net">> \o d.events)

\* A fallback that reads the extracted CSV first and the ZIP after it.
StreetsAPI_fetch_fallback_csv_first(self, fsys, den) ==
    LET z == BaseGeoAPI_read_local_csv(self, fsys, den, self.zip_filename, TRUE)
        c == BaseGeoAPI_read_local_csv(self, fsys, den, self.csv_filename, FALSE)
    IN  IF c.err = OK THEN c
        ELSE [err |-> z.err, msg |-> z.msg, text |-> z.text, events |-> c.events \o z.events]

\* StreetsAPI._fetch_fallback: the cached ZIP first; on any failure of that
\* attempt, the extracted CSV.
StreetsAPI_fetch_fallback(self, fsys, den) ==
    LET z == BaseGeoAPI_read_local_csv(self, fsys, den, self.zip_filename, TRUE)
        c == BaseGeoAPI_read_local_csv(self, fsys, den, self.csv_filename, FALSE)
    IN  IF z.err = OK THEN z
        ELSE [err |-> c.err, msg |-> c.msg, text |-> c.text, events |-> z.events \o c.events]

\* MunicipalitiesAPI._fetch_remote: GET the snapshot, decode it (utf-8-sig),
\* write it to the cache (utf-8); every exception becomes RemoteFetchError.
MunicipalitiesAPI_fetch_remote(self, fsys, den, net) ==
    IF ~net.dl.ok
    THEN Result("RemoteFetchError", net.dl.why, NoText, fsys, <<"net">>)
    ELSE IF net.dl.body.t # "csv"
    THEN Result("RemoteFetchError", "UnicodeDecodeError", NoText, fsys, <<"net">>)
    ELSE IF self.cache_dir \in den
    THEN Result("RemoteFetchError", "PermissionError", NoText, fsys, <<"net">>)
    ELSE LET csv_content == DecodeUtf8Sig(net.dl.body)
             bytes == EncodeUtf8(csv_content)
         IN  Result(OK, "", csv_content,
                    [fsys EXCEPT ![self.cache_dir][self.csv_filename] =
                                     CsvFile(bytes.bom, bytes.body)],
                    <<"net", "write">>)

\* MunicipalitiesAPI._fetch_fallback
MunicipalitiesAPI_fetch_fallback(self, fsys, den) ==
    BaseGeoAPI_read_local_csv(self, fsys, den, self.csv_filename, FALSE)

(***************************************************************************)
(* Municipality rows.  Codes (historical_code, bfs_code, parent), level    *)
(* and valid_to are numbers with 0 for the empty CSV cell / None; names    *)
(* are strings with "" for the empty cell and None after parsing.          *)
(***************************************************************************)
RawRow(hc, bfs, name, short, level, parent, validTo) ==
    [HistoricalCode |-> hc, BfsCode |-> bfs, Name |-> name, ShortName |-> short,
     Level |-> level, Parent |-> parent, ValidTo |-> validTo]

\* MunicipalityV1 field constraints checked at construction
\* (historical_code and name: min_length=1; level: ge=1, le=9).
MunicipalityV1_valid(row) ==
    /\ row.HistoricalCode # 0
    /\ row.Name # ""
    /\ row.Level \in 0..9

\* MunicipalitiesAPI._parse_row_v1: canton fields are left unset.
MunicipalitiesAPI_parse_row_v1(row) ==
    [historical_code |-> row.HistoricalCode,
     bfs_code |-> row.BfsCode,
     name |-> row.Name,
     short_name |-> IF row.ShortName = "" THEN None ELSE row.ShortName,
     canton_code |-> None,
     canton_name |-> None,
     valid_to |-> row.ValidTo,
     level |-> row.Level,
     parent |-> row.Parent]

\* MunicipalityV1.is_active
is_active(m) == m.valid_to = 0

max_depth_short == 5 - 1
max_depth_long == 5 + 1

\* `max_depth = 5  # Safety limit`
max_depth == 5

\* by_historical_code.get(code): the dict comprehension keeps, for a code that
\* several rows carry, the last of them.  0: no such row.
by_historical_code(municipalities, code) ==
    LET at == {i \in 1..Len(municipalities) : municipalities[i].historical_code = code}
    IN  IF at = {} THEN 0 ELSE CHOOSE i \in at : \A j \in at : j <= i

\* The while loop of _enrich_with_cantons, from `current` at `depth`.
RECURSIVE walk_parents(_, _, _)
walk_parents(municipalities, current, depth) ==
    IF ~(current.parent # 0 /\ depth < max_depth)
    THEN <<None, None>>
    ELSE LET p == by_historical_code(municipalities, current.parent)
         IN  IF p = 0 THEN <<None, None>>
             ELSE IF municipalities[p].level = 1
             THEN <<municipalities[p].short_name, municipalities[p].name>>
             ELSE walk_parents(municipalities, municipalities[p], depth + 1)

\* The number of by_historical_code.get() calls the while loop makes from
\* `current` at `depth`.
RECURSIVE parent_lookups(_, _, _)
parent_lookups(municipalities, current, depth) ==
    IF ~(current.parent # 0 /\ depth < max_depth)
    THEN 0
    ELSE LET p == by_historical_code(municipalities, current.parent)
         IN  IF p = 0 THEN 1
             ELSE IF municipalities[p].level = 1 THEN 1
             ELSE 1 + parent_lookups(municipalities, municipalities[p], depth + 1)

\* The body of the for loop of _enrich_with_cantons for one record m.
canton_of(municipalities, m) ==
    IF m.level = 1 THEN <<m.short_name, m.name>>
    ELSE IF m.parent # 0 THEN walk_parents(municipalities, m, 0)
    ELSE <<None, None>>

\* An enrichment that keeps only the records it found a canton for.
MunicipalitiesAPI_enrich_with_cantons_resolved(municipalities) ==
    SelectSeq([i \in 1..Len(municipalities) |->
                  LET c == canton_of(municipalities, municipalities[i])
                  IN  [municipalities[i] EXCEPT !.canton_code = c[1], !.canton_name = c[2]]],
              LAMBDA m : m.canton_code # None)

\* MunicipalitiesAPI._enrich_with_cantons: a new list of copies
\* (model_copy(update=...), which does not re-validate).
MunicipalitiesAPI_enrich_with_cantons(municipalities) ==
    [i \in 1..Len(municipalities) |->
        LET c == canton_of(municipalities, municipalities[i])
        IN  [municipalities[i] EXCEPT !.canton_code = c[1], !.canton_name = c[2]]]

(***************************************************************************)
(* CSV bodies the upstream can deliver (and caches can hold).              *)
(***************************************************************************)
CsvBody(body) ==
    CASE body = "snapA" ->
            << RawRow(1, 0, "Zuerich", "ZH", 1, 0, 0),
               RawRow(2, 0, "Bezirk Affoltern", "", 2, 1, 0),
               RawRow(3, 261, "Aeugst am Albis", "Aeugst", 3, 2, 0) >>
      [] body = "snapB" ->
            << RawRow(5, 0, "Kyburg", "", 3, 4, 1),
               RawRow(4, 0, "Bern", "BE", 1, 0, 0) >>
      [] body = "snapBad" ->
            << RawRow(1, 0, "Zuerich", "ZH", 1, 0, 0),
               RawRow(0, 0, "", "", 3, 1, 0) >>
      [] body \in {"plzNew", "plzOld"} ->
            << [PLZ |-> "8001", BFS |-> 261, Kanton |-> "ZH", Ortschaftsname |-> "Zuerich"],
               [PLZ |-> "3000", BFS |-> 351, Kanton |-> "BE", Ortschaftsname |-> "Bern"],
               [PLZ |-> "8001", BFS |-> 261, Kanton |-> "ZH", Ortschaftsname |-> "Zuerich"] >>
      [] body = "plzOther" ->
            << [PLZ |-> "3000", BFS |-> 351, Kanton |-> "BE", Ortschaftsname |-> "Bern"] >>
      [] body \in {"strNew", "strOld"} ->
            << [STR_ESID |-> "10", ZIP_LABEL |-> << <<"8001", "Zuerich">> >>,
                COM_FOSNR |-> 261, COM_CANTON |-> "ZH"],
               [STR_ESID |-> "11", ZIP_LABEL |-> << <<"3000", "Bern">>, <<"8001", "Zuerich">> >>,
                COM_FOSNR |-> 351, COM_CANTON |-> "BE"] >>
      [] body = "strSeed" ->
            << [STR_ESID |-> "11", ZIP_LABEL |-> << <<"3000", "Bern">> >>,
                COM_FOSNR |-> 351, COM_CANTON |-> "BE"] >>
      [] OTHER -> << >>

\* BaseGeoAPI._parse_csv: drop one leading byte order mark, then one row
\* mapping per data line, in file order.
BaseGeoAPI_parse_csv(csv_content) == CsvBody(csv_content.body)

Upper(code) ==
    CASE code = "zh" -> "ZH"
      [] code = " zh " -> " ZH "
      [] code = "ch" -> "CH"
      [] code = "Ch" -> "CH"
      [] code = "de" -> "DE"
      [] OTHER -> code

\* `if self._enriched_cache:` (truthiness) instead of `is not None`.
memo_hit_truthy(cache) == cache # <<>> /\ cache[1] # <<>>

\* `if self._enriched_cache is not None`
memo_hit(cache) == cache # <<>>

\* A materialisation that stores the rows parsed so far when a row fails.
MunicipalitiesAPI_get_enriched_data_partial(self, fsys, den, net) ==
    IF memo_hit(self.enriched_cache)
    THEN [err |-> OK, msg |-> <<>>, value |-> self.enriched_cache[1], self |-> self,
          fs |-> fsys, events |-> <<>>, remote |-> None, text |-> NoText,
          fof |-> 0, enrich |-> 0]
    ELSE LET fetch == MunicipalitiesAPI_fetch_remote(self, fsys, den, net)
             fallback == MunicipalitiesAPI_fetch_fallback(self, fetch.fs, den)
             r == BaseGeoAPI_fetch_or_fallback(self, fetch, fallback, "municipality data")
             rows == BaseGeoAPI_parse_csv(r.text)
             unenriched == [i \in 1..Len(rows) |-> MunicipalitiesAPI_parse_row_v1(rows[i])]
             enriched == MunicipalitiesAPI_enrich_with_cantons(unenriched)
         IN  IF r.err # OK
             THEN [err |-> r.err, msg |-> r.msg, value |-> <<>>, self |-> self, fs |-> r.fs,
                   events |-> r.events, remote |-> fetch.err, text |-> NoText,
                   fof |-> 1, enrich |-> 0]
             ELSE IF \E i \in 1..Len(rows) : ~MunicipalityV1_valid(rows[i])
             THEN [err |-> "ValidationError", msg |-> <<>>, value |-> <<>>,
                   self |-> [self EXCEPT !.enriched_cache =
                               << MunicipalitiesAPI_enrich_with_cantons(
                                      SelectSeq(unenriched,
                                                LAMBDA m : m.historical_code # 0)) >>],
                   fs |-> r.fs, events |-> r.events, remote |-> fetch.err, text |-> r.text,
                   fof |-> 1, enrich |-> 0]
             ELSE [err |-> OK, msg |-> <<>>, value |-> enriched,
                   self |-> [self EXCEPT !.enriched_cache = <<enriched>>],
                   fs |-> r.fs, events |-> r.events, remote |-> fetch.err, text |-> r.text,
                   fof |-> 1, enrich |-> 1]

\* MunicipalitiesAPI._get_enriched_data: the memo (<<>>: None, <<list>>: set),
\* else fetch or fall back, parse every row, enrich, store.
MunicipalitiesAPI_get_enriched_data(self, fsys, den, net) ==
    IF memo_hit(self.enriched_cache)
    THEN [err |-> OK, msg |-> <<>>, value |-> self.enriched_cache[1], self |-> self,
          fs |-> fsys, events |-> <<>>, remote |-> None, text |-> NoText,
          fof |-> 0, enrich |-> 0]
    ELSE LET fetch == MunicipalitiesAPI_fetch_remote(self, fsys, den, net)
             fallback == MunicipalitiesAPI_fetch_fallback(self, fetch.fs, den)
             r == BaseGeoAPI_fetch_or_fallback(self, fetch, fallback, "municipality data")
             rows == BaseGeoAPI_parse_csv(r.text)
             unenriched == [i \in 1..Len(rows) |-> MunicipalitiesAPI_parse_row_v1(rows[i])]
             enriched == MunicipalitiesAPI_enrich_with_cantons(unenriched)
         IN  IF r.err # OK
             THEN [err |-> r.err, msg |-> r.msg, value |-> <<>>, self |-> self, fs |-> r.fs,
                   events |-> r.events, remote |-> fetch.err, text |-> NoText,
                   fof |-> 1, enrich |-> 0]
             ELSE IF \E i \in 1..Len(rows) : ~MunicipalityV1_valid(rows[i])
             THEN [err |-> "ValidationError", msg |-> <<>>, value |-> <<>>, self |-> self,
                   fs |-> r.fs, events |-> r.events, remote |-> fetch.err, text |-> r.text,
                   fof |-> 1, enrich |-> 0]
             ELSE [err |-> OK, msg |-> <<>>, value |-> enriched,
                   self |-> [self EXCEPT !.enriched_cache = <<enriched>>],
                   fs |-> r.fs, events |-> r.events, remote |-> fetch.err, text |-> r.text,
                   fof |-> 1, enrich |-> 1]

QueryOp(name, code, canton) == [name |-> name, code |-> code, canton |-> canton]

QueryOps ==
    { QueryOp("iter_all", 0, ""), QueryOp("get_all", 0, ""),
      QueryOp("get_by_bfs_code", 261, ""), QueryOp("get_by_historical_code", 4, ""),
      QueryOp("get_by_canton", 0, "zh"), QueryOp("get_active", 0, ""),
      QueryOp("get_historical", 0, ""), QueryOp("iter_by_canton", 0, "BE") }

\* The query operations of MunicipalitiesAPI, each over iter_all().
MunicipalitiesAPI_query(op, data) ==
    LET first(ms) == IF ms = <<>> THEN <<>> ELSE <<ms[1]>>
    IN  CASE op.name \in {"iter_all", "get_all"} -> data
          [] op.name = "get_by_bfs_code" ->
                first(SelectSeq(data, LAMBDA m : m.bfs_code = op.code))
          [] op.name = "get_by_historical_code" ->
                first(SelectSeq(data, LAMBDA m : m.historical_code = op.code))
          [] op.name \in {"get_by_canton", "iter_by_canton"} ->
                SelectSeq(data, LAMBDA m : m.canton_code = Upper(op.canton))
          [] op.name = "get_active" -> SelectSeq(data, LAMBDA m : is_active(m))
          [] OTHER -> SelectSeq(data, LAMBDA m : ~is_active(m))

(***************************************************************************)
(* What the network can answer, and what a fallback directory can hold     *)
(* before the first call.                                                  *)
(***************************************************************************)
Http(ok, why, body) == [ok |-> ok, why |-> why, body |-> body]
HttpFailures == {Http(FALSE, "timeout", Absent), Http(FALSE, "HTTP 503", Absent)}

ZipGood == ZipFile(<<Member(PostalMember, 1, "plzNew")>>)
ZipMulti == ZipFile(<<Member("other.csv", 0, "plzOther"), Member(PostalMember, 0, "plzOld")>>)
ZipOther == ZipFile(<<Member("other.csv", 0, "plzOther")>>)
ZipNoCsv == ZipFile(<<[name |-> "readme.txt", data |-> Bytes(0, "text")]>>)
ZipStreets == ZipFile(<<Member(StreetsCsv.base, 1, "strNew")>>)
ZipStreetsOld == ZipFile(<<Member(StreetsCsv.base, 0, "strOld")>>)

\* A STAC items response: whether a JSON document arrived, and its features
\* (id and href are None where the key is missing; an asset is a mapping
\* with the keys href and type).
Feature(id, assets) == [id |-> id, assets |-> assets]
Asset(name, href, type) == [name |-> name, href |-> href, type |-> type]
StacResponse(ok, why, features) == [ok |-> ok, why |-> why, features |-> features]

Stac(ok, why, item, asset) ==
    StacResponse(ok, why,
        IF ~item THEN << Feature("other_item", <<>>) >>
        ELSE << Feature(StreetsItemId,
                        IF asset THEN << Asset(StreetsZip.base, "https://data/zip", "zip") >>
                        ELSE << >>) >>)
StacOk == Stac(TRUE, "", TRUE, TRUE)

Net(stac, dl) == [stac |-> stac, dl |-> dl]

NetOutcomes(kind) ==
    CASE kind = "postal" ->
            {Net(StacOk, d) : d \in HttpFailures \cup
                {Http(TRUE, "", b) : b \in {ZipGood, ZipMulti, ZipOther, ZipNoCsv, Garbage}}}
      [] kind = "streets" ->
            {Net(st, Http(FALSE, "timeout", Absent)) :
                st \in {Stac(FALSE, "timeout", FALSE, FALSE), Stac(TRUE, "", FALSE, FALSE),
                        Stac(TRUE, "", TRUE, FALSE), StacOk}}
            \cup {Net(StacOk, Http(TRUE, "", b)) : b \in {ZipStreets, ZipNoCsv, Garbage}}
      [] OTHER ->
            {Net(StacOk, d) : d \in {Http(FALSE, "timeout", Absent)} \cup
                {Http(TRUE, "", b) : b \in {CsvFile(1, "snapA"), CsvFile(0, "snapBad"),
                                           CsvFile(0, "snapEmpty"), Garbage}}}

\* Pre-seeded contents of the fallback directory: the files an operator can
\* have put there before the first call, and what each can hold.
SeedZip(kind) ==
    CASE kind = "postal" -> PostalZip
      [] kind = "streets" -> StreetsZip
      [] OTHER -> MuniCsv(1)

SeedCsv(kind) == IF kind = "streets" THEN StreetsCsv ELSE SeedZip(kind)

Seeds(kind, file) ==
    CASE kind = "postal" /\ file = PostalZip -> {Absent, Garbage, ZipMulti, ZipNoCsv}
      [] kind = "streets" /\ file = StreetsZip -> {Absent, Garbage, ZipStreetsOld}
      [] kind = "streets" /\ file = StreetsCsv -> {Absent, CsvFile(1, "strSeed")}
      [] kind = "municipalities" /\ file = MuniCsv(1) -> {Absent, CsvFile(1, "snapB")}
      [] OTHER -> {Absent}

SourcesDirOf(a) == BaseGeoAPI_init(a.fallback_allowed, a.cache_dir, a.sources_dir).sources_dir

ArgSet ==
    [kind : Kinds, model_version : {"v1", "v2"}, fallback_allowed : BOOLEAN,
     cache_dir : {None, "dirA"}, sources_dir : {None, "dirA", "dirB"},
     reference_date : {0, 1}]

NoLast ==
    [op |-> "none", err |-> OK, msg |-> <<>>, value |-> <<>>, events |-> <<>>,
     remote |-> None, text |-> NoText]

NoHist ==
    [fetchedOK |-> FALSE, fof |-> 0, enrich |-> 0, rows |-> <<>>]

Idle == [t \in {1, 2} |-> "idle"]
NoLocals == [t \in {1, 2} |-> <<>>]

Init ==
    /\ args \in {a \in ArgSet : a.kind # "municipalities" => a.reference_date = 0}
    /\ denied \in {{}, {SourcesDirOf(args)}}
    /\ \E z \in Seeds(args.kind, SeedZip(args.kind)), c \in Seeds(args.kind, SeedCsv(args.kind)) :
          fs = [d \in Dirs |->
                  [f \in Files |->
                      IF d # SourcesDirOf(args) \/ d \in denied THEN Absent
                      ELSE IF f = SeedZip(args.kind) THEN z
                      ELSE IF f = SeedCsv(args.kind) THEN c
                      ELSE Absent]]
    /\ today = 1
    /\ api = NoApi
    /\ last = NoLast
    /\ calls = 0
    /\ hist = NoHist
    /\ pc = Idle
    /\ tl = NoLocals
    /\ snap = <<>>
    /\ out = <<>>

\* api = XxxAPI(**args): a fresh instance replaces the previous one.
Construct ==
    /\ calls < MaxCalls
    /\ LET r == NewAPI(args, today)
       IN  /\ api' = r.api
           /\ last' = [NoLast EXCEPT !.op = "construct", !.err = r.err]
    /\ calls' = calls + 1
    /\ hist' = [hist EXCEPT !.fof = 0, !.enrich = 0, !.rows = <<>>]
    /\ UNCHANGED <<args, fs, denied, today, pc, tl, snap, out>>

\* PostalCodesAPI._get_csv_content, as iter_all() runs it
PostalGetCsvContent ==
    /\ calls < MaxCalls
    /\ api.state = "ready"
    /\ api.kind = "postal"
    /\ \E net \in NetOutcomes("postal") :
         LET fetch == PostalCodesAPI_fetch_remote(api, fs, denied, net)
             fallback == PostalCodesAPI_fetch_fallback(api, fetch.fs, denied)
             r == BaseGeoAPI_fetch_or_fallback(api, fetch, fallback, "postal codes")
         IN  /\ fs' = r.fs
             /\ last' = [op |-> "iter_all", err |-> r.err, msg |-> r.msg, value |-> <<>>,
                         events |-> r.events, remote |-> fetch.err, text |-> r.text]
             /\ hist' = [hist EXCEPT !.fetchedOK = @ \/ fetch.err = OK, !.fof = @ + 1]
    /\ calls' = calls + 1
    /\ UNCHANGED <<args, api, denied, today, pc, tl, snap, out>>

\* StreetsAPI._get_csv_content, as iter_all() runs it
StreetsGetCsvContent ==
    /\ calls < MaxCalls
    /\ api.state = "ready"
    /\ api.kind = "streets"
    /\ \E net \in NetOutcomes("streets") :
         LET fetch == StreetsAPI_fetch_remote(api, fs, denied, net)
             fallback == StreetsAPI_fetch_fallback(api, fetch.fs, denied)
             r == BaseGeoAPI_fetch_or_fallback(api, fetch, fallback, "streets")
         IN  /\ fs' = r.fs
             /\ last' = [op |-> "iter_all", err |-> r.err, msg |-> r.msg, value |-> <<>>,
                         events |-> r.events, remote |-> fetch.err, text |-> r.text]
             /\ hist' = [hist EXCEPT !.fetchedOK = @ \/ fetch.err = OK, !.fof = @ + 1]
    /\ calls' = calls + 1
    /\ UNCHANGED <<args, api, denied, today, pc, tl, snap, out>>

\* A query operation of MunicipalitiesAPI, run to completion by one caller.
MunicipalitiesQuery ==
    /\ calls < MaxCalls
    /\ api.state = "ready"
    /\ api.kind = "municipalities"
    /\ \E op \in QueryOps,
          net \in (IF memo_hit(api.enriched_cache)
                   THEN {Net(StacOk, Http(FALSE, "timeout", Absent))}
                   ELSE NetOutcomes("municipalities")) :
         LET r == MunicipalitiesAPI_get_enriched_data(api, fs, denied, net)
         IN  /\ fs' = r.fs
             /\ api' = r.self
             /\ last' = [op |-> op.name, err |-> r.err, msg |-> r.msg,
                         value |-> IF r.err = OK THEN MunicipalitiesAPI_query(op, r.value)
                                   ELSE <<>>,
                         events |-> r.events, remote |-> r.remote, text |-> r.text]
             /\ hist' = [fetchedOK |-> hist.fetchedOK \/ r.remote = OK,
                         fof |-> hist.fof + r.fof,
                         enrich |-> hist.enrich + r.enrich,
                         rows |-> IF r.enrich = 1 THEN BaseGeoAPI_parse_csv(r.text)
                                  ELSE hist.rows]
    /\ calls' = calls + 1
    /\ UNCHANGED <<args, denied, today, pc, tl, snap, out>>

\* Midnight passes (the date is read by MunicipalitiesAPI.__init__ only).
Tick ==
    /\ args.kind = "municipalities"
    /\ today < MaxDay
    /\ today' = today + 1
    /\ UNCHANGED <<args, api, fs, denied, last, calls, hist, pc, tl, snap, out>>

Next ==
    \/ Construct
    \/ PostalGetCsvContent
    \/ StreetsGetCsvContent
    \/ MunicipalitiesQuery
    \/ Tick

Spec == Init /\ [][Next]_vars

(***************************************************************************)
(* Properties of the fetch / cache / fallback layer (specification Spec).  *)
(***************************************************************************)
Count(seq, x) == Cardinality({i \in DOMAIN seq : seq[i] = x})

\* A local artifact the fallback of `self` can use, and the CSV text it holds.
HasCsvMember(z) ==
    /\ z.t = "zip"
    /\ \E i \in DOMAIN z.members : EndsWithCsv(z.members[i].name)

FirstCsvText(z) ==
    LET i == CHOOSE k \in DOMAIN z.members :
                 /\ EndsWithCsv(z.members[k].name)
                 /\ \A j \in 1..(k - 1) : ~EndsWithCsv(z.members[j].name)
    IN  DecodeUtf8(z.members[i].data)

ValidArtifact(self) ==
    LET dir == fs[self.sources_dir]
    IN  CASE self.kind = "postal" -> HasCsvMember(dir[PostalZip])
          [] self.kind = "streets" ->
                HasCsvMember(dir[StreetsZip]) \/ dir[StreetsCsv].t = "csv"
          [] OTHER ->
                /\ dir[MuniCsv(self.reference_date)].t = "csv"
                /\ \A i \in DOMAIN CsvBody(dir[MuniCsv(self.reference_date)].body) :
                      MunicipalityV1_valid(CsvBody(dir[MuniCsv(self.reference_date)].body)[i])

ArtifactText(self) ==
    LET dir == fs[self.sources_dir]
    IN  CASE self.kind = "postal" -> FirstCsvText(dir[PostalZip])
          [] self.kind = "streets" ->
                IF HasCsvMember(dir[StreetsZip]) THEN FirstCsvText(dir[StreetsZip])
                ELSE DecodeUtf8Sig(dir[StreetsCsv])
          [] OTHER -> DecodeUtf8Sig(dir[MuniCsv(self.reference_date)])

ContextLabel(kind) ==
    CASE kind = "postal" -> "postal codes"
      [] kind = "streets" -> "streets"
      [] OTHER -> "municipality data"

\* C1: when the remote fetch raises RemoteFetchError and the instance was built
\* with fallback_allowed false, the call raises NoFallbackDataError and the
\* fallback operation is not invoked: no local file is read.
C1_StrictModeNoLocalRead ==
    (last.remote = "RemoteFetchError" /\ ~args.fallback_allowed) =>
        /\ last.err = "NoFallbackDataError"
        /\ Count(last.events, "fallback") = 0
        /\ Count(last.events, "read") = 0

C1_Witness ==
    /\ last.remote = "RemoteFetchError"
    /\ ~args.fallback_allowed
    /\ last.err = "NoFallbackDataError"
    /\ ValidArtifact(api)

\* C2: when the remote fetch raises RemoteFetchError, fallback is allowed and a
\* valid local artifact exists in the fallback directory, the call succeeds
\* with the content of that artifact.
C2_FallbackUsesLocalArtifact ==
    (last.remote = "RemoteFetchError" /\ args.fallback_allowed /\ ValidArtifact(api)) =>
        /\ last.err = OK
        /\ last.text = ArtifactText(api)

C2_Witness ==
    /\ last.remote = "RemoteFetchError"
    /\ args.fallback_allowed
    /\ ValidArtifact(api)
    /\ last.err = OK
    /\ last.text.body # None
    /\ api.sources_dir # api.cache_dir

\* C3 (as claimed): with fallback allowed, when the remote fetch raises
\* RemoteFetchError and the fallback fails for any reason, the caller gets
\* NoFallbackDataError with the context label and the remote error text.
C3_OnlyNoFallbackDataErrorEscapes ==
    (last.remote = "RemoteFetchError" /\ args.fallback_allowed /\ last.err # OK) =>
        /\ last.err = "NoFallbackDataError"
        /\ Len(last.msg) = 2
        /\ last.msg[1] = ContextLabel(api.kind)

\* C4 (as claimed): once a remote fetch has succeeded under this configuration,
\* in which sources_dir is not overridden, a later call whose remote fetch
\* raises RemoteFetchError succeeds from the cached artifact.
C4_CachedArtifactServesLaterCalls ==
    (/\ hist.fetchedOK
     /\ args.fallback_allowed
     /\ args.sources_dir = None
     /\ denied = {}
     /\ last.remote = "RemoteFetchError") => last.err # "NoFallbackDataError"

\* C5: within one fetch-or-fallback call the remote operation is attempted
\* exactly once and first; the fallback at most once and only after the remote
\* attempt raised RemoteFetchError; nothing remote follows the fallback.
C5_SingleAttemptRemoteFirst ==
    last.remote # None =>
        /\ Count(last.events, "remote") = 1
        /\ last.events[1] = "remote"
        /\ Count(last.events, "fallback") <= 1
        /\ Count(last.events, "fallback") = 1 => last.remote = "RemoteFetchError"
        /\ \A i, j \in DOMAIN last.events :
              (i < j /\ last.events[i] = "fallback") =>
                  last.events[j] \notin {"remote", "net", "write", "fallback"}

C5_Witness ==
    /\ last.remote = "RemoteFetchError"
    /\ Count(last.events, "fallback") = 1
    /\ last.err = "NoFallbackDataError"

\* The downloaded archive is malformed: corrupt, without a CSV member, or
\* without the requested member.
Malformed(z, member) ==
    \/ z.t # "zip"
    \/ ~HasCsvMember(z)
    \/ member # None /\ \A i \in DOMAIN z.members : z.members[i].name # member

\* C6: when the download succeeded (the archive was written to the cache) but
\* the archive is malformed, GeoAPIError reaches the caller as raised and the
\* fallback is not attempted, whatever fallback_allowed is.
C6_MalformedArtifactPropagates ==
    (/\ api.kind \in {"postal", "streets"}
     /\ Count(last.events, "write") = 1
     /\ Malformed(fs[api.cache_dir][api.zip_filename], api.csv_path_in_zip)) =>
        /\ last.err = "GeoAPIError"
        /\ last.remote = "GeoAPIError"
        /\ Count(last.events, "fallback") = 0
        /\ last.msg \in {<<"Invalid ZIP file">>, <<"Failed to extract CSV">>}

C6_Witness ==
    /\ api.kind = "postal"
    /\ args.fallback_allowed
    /\ Count(last.events, "write") = 1
    /\ fs[api.cache_dir][api.zip_filename] = ZipOther
    /\ last.err = "GeoAPIError"
    /\ ValidArtifact(api)

\* C7: constructing an API with a model_version other than 'v1' raises
\* GeoAPIError before any network request or file access, and leaves no
\* usable instance: no operation ever runs.
C7_UnsupportedVersionFailsConstruction ==
    args.model_version # "v1" =>
        /\ api.state = "none"
        /\ last.op \in {"none", "construct"}
        /\ last.op = "construct" => last.err = "GeoAPIError"
        /\ last.events = <<>>
        /\ hist.fof = 0

C7_Witness ==
    /\ args.model_version = "v2"
    /\ last.op = "construct"
    /\ last.err = "GeoAPIError"
    /\ calls = 2

C8_MemoInvariant ==
    api.kind = "municipalities" =>
        /\ hist.enrich <= 1
        /\ hist.enrich = 1 <=> api.enriched_cache # <<>>
        /\ api.enriched_cache # <<>> =>
              /\ Len(api.enriched_cache[1]) = Len(hist.rows)
              /\ \A i \in DOMAIN hist.rows :
                    /\ api.enriched_cache[1][i].historical_code = hist.rows[i].HistoricalCode
                    /\ api.enriched_cache[1][i].name = hist.rows[i].Name
        /\ (last.op \in {"iter_all", "get_all"} /\ last.err = OK) =>
              last.value = api.enriched_cache[1]

CompleteList(text) ==
    LET rows == BaseGeoAPI_parse_csv(text)
    IN  MunicipalitiesAPI_enrich_with_cantons(
            [i \in 1..Len(rows) |-> MunicipalitiesAPI_parse_row_v1(rows[i])])

C26_MemoUnsetOrComplete ==
    (api.kind = "municipalities" /\ api.state = "ready") =>
        \/ api.enriched_cache = <<>>
        \/ /\ \A i \in 1..Len(hist.rows) : MunicipalityV1_valid(hist.rows[i])
           /\ Len(api.enriched_cache[1]) = Len(hist.rows)
           /\ \E text \in {[bom |-> 0, body |-> b] : b \in {"snapA", "snapB", "snapEmpty"}} :
                 api.enriched_cache[1] = CompleteList(text)

\* C26: the memo of a MunicipalitiesAPI instance is unset or holds the whole
\* enriched list of one successful fetch, parse and enrichment; a query on an
\* instance whose memo is unset attempts the fetch, leaves the memo unset
\* when it fails (no part of a list is stored) and stores the whole list of
\* the text it got when it succeeds.
C26_MemoHoldsNothingOrOneCompleteList ==
    /\ []C26_MemoUnsetOrComplete
    /\ [][(/\ api.kind = "municipalities"
           /\ api.state = "ready"
           /\ api.enriched_cache = <<>>
           /\ calls' # calls
           /\ last'.op # "construct") =>
              /\ hist'.fof = hist.fof + 1
              /\ last'.events # <<>>
              /\ last'.events[1] = "remote"
              /\ last'.err # OK => api'.enriched_cache = <<>>
              /\ last'.err = OK => api'.enriched_cache = << CompleteList(last'.text) >>]_vars

\* A first query failed and left the memo unset; the
\* second query fetched again and stored its list.
C26_Witness ==
    /\ api.kind = "municipalities"
    /\ hist.fof = 2
    /\ hist.enrich = 1
    /\ api.enriched_cache # <<>>
    /\ Len(api.enriched_cache[1]) = 3
    /\ last.err = OK

\* C28: a call of PostalCodesAPI or StreetsAPI whose remote fetch ends in
\* RemoteFetchError or GeoAPIError leaves the ZIP in the cache as it was.
C28_FailedFetchKeepsCachedZip ==
    [][(/\ api.state = "ready"
        /\ api.kind \in {"postal", "streets"}
        /\ calls' # calls
        /\ last'.op # "construct"
        /\ last'.remote \in {"RemoteFetchError", "GeoAPIError"}) =>
           fs'[api.cache_dir][api.zip_filename] = fs[api.cache_dir][api.zip_filename]]_vars

\* C29: when PostalCodesAPI falls back to a cached ZIP that holds the member
\* the remote path extracts (csv_path_in_zip), the text it returns is the
\* text of that member, whatever other CSV members the archive holds.
C29_FallbackReadsTheMemberRemoteReads ==
    (/\ api.state = "ready"
     /\ api.kind = "postal"
     /\ last.op = "iter_all"
     /\ last.remote = "RemoteFetchError"
     /\ last.err = OK
     /\ BaseGeoAPI_extract_csv_from_zip(fs[api.sources_dir][api.zip_filename],
                                        api.csv_path_in_zip).err = OK) =>
        last.text = BaseGeoAPI_extract_csv_from_zip(fs[api.sources_dir][api.zip_filename],
                                                    api.csv_path_in_zip).text

(***************************************************************************)
(* Two threads sharing one fresh MunicipalitiesAPI instance, each making   *)
(* one query: _get_enriched_data step by step (specification SpecRace).    *)
(***************************************************************************)
Threads == {1, 2}

Locals(miss, csv_content, enriched, err) ==
    [miss |-> miss, csv_content |-> csv_content, enriched |-> enriched, err |-> err]

RaceArgs ==
    {a \in ArgSet : /\ a.kind = "municipalities"
                    /\ a.model_version = "v1"
                    /\ a.cache_dir = None
                    /\ a.sources_dir = None
                    /\ a.reference_date = 1}

InitRace ==
    /\ args \in RaceArgs
    /\ denied = {}
    /\ \E c \in Seeds("municipalities", MuniCsv(1)) :
          fs = [d \in Dirs |-> [f \in Files |->
                   IF d = DefaultDir /\ f = MuniCsv(1) THEN c ELSE Absent]]
    /\ today = 1
    /\ api = NewAPI(args, today).api
    /\ last = NoLast
    /\ calls = 0
    /\ hist = NoHist
    /\ pc = Idle
    /\ tl = [t \in Threads |-> Locals(FALSE, NoText, <<>>, OK)]
    /\ snap = <<>>
    /\ out = <<>>

\* Double-checked variant: the memo is looked at again before fetching.
T_Fetch_recheck(t) ==
    /\ pc[t] = "fetch"
    /\ IF memo_hit(api.enriched_cache)
       THEN /\ pc' = [pc EXCEPT ![t] = "done"]
            /\ tl' = [tl EXCEPT ![t].enriched = api.enriched_cache[1]]
            /\ UNCHANGED <<fs, hist>>
       ELSE \E net \in NetOutcomes("municipalities") :
              LET fetch == MunicipalitiesAPI_fetch_remote(api, fs, denied, net)
                  fallback == MunicipalitiesAPI_fetch_fallback(api, fetch.fs, denied)
                  r == BaseGeoAPI_fetch_or_fallback(api, fetch, fallback, "municipality data")
              IN  /\ fs' = r.fs
                  /\ hist' = [hist EXCEPT !.fof = @ + 1]
                  /\ pc' = [pc EXCEPT ![t] = IF r.err = OK THEN "parse" ELSE "raised"]
                  /\ tl' = [tl EXCEPT ![t].csv_content = r.text, ![t].err = r.err]
    /\ UNCHANGED <<args, api, denied, today, last, calls, snap, out>>

\* `if self._enriched_cache is not None: return self._enriched_cache`
T_Check(t) ==
    /\ pc[t] = "idle"
    /\ IF memo_hit(api.enriched_cache)
       THEN /\ pc' = [pc EXCEPT ![t] = "done"]
            /\ tl' = [tl EXCEPT ![t].enriched = api.enriched_cache[1]]
       ELSE /\ pc' = [pc EXCEPT ![t] = "fetch"]
            /\ tl' = [tl EXCEPT ![t].miss = TRUE]
    /\ UNCHANGED <<args, api, fs, denied, today, last, calls, hist, snap, out>>

\* `csv_content = self._fetch_or_fallback(...)`
T_Fetch(t) ==
    /\ pc[t] = "fetch"
    /\ \E net \in NetOutcomes("municipalities") :
         LET fetch == MunicipalitiesAPI_fetch_remote(api, fs, denied, net)
             fallback == MunicipalitiesAPI_fetch_fallback(api, fetch.fs, denied)
             r == BaseGeoAPI_fetch_or_fallback(api, fetch, fallback, "municipality data")
         IN  /\ fs' = r.fs
             /\ hist' = [hist EXCEPT !.fof = @ + 1]
             /\ pc' = [pc EXCEPT ![t] = IF r.err = OK THEN "parse" ELSE "raised"]
             /\ tl' = [tl EXCEPT ![t].csv_content = r.text, ![t].err = r.err]
    /\ UNCHANGED <<args, api, denied, today, last, calls, snap, out>>

\* The parse loop and `enriched = self._enrich_with_cantons(unenriched)`
T_Enrich(t) ==
    /\ pc[t] = "parse"
    /\ LET rows == BaseGeoAPI_parse_csv(tl[t].csv_content)
           unenriched == [i \in 1..Len(rows) |-> MunicipalitiesAPI_parse_row_v1(rows[i])]
       IN  IF \E i \in 1..Len(rows) : ~MunicipalityV1_valid(rows[i])
           THEN /\ pc' = [pc EXCEPT ![t] = "raised"]
                /\ tl' = [tl EXCEPT ![t].err = "ValidationError"]
                /\ hist' = hist
           ELSE /\ pc' = [pc EXCEPT ![t] = "store"]
                /\ tl' = [tl EXCEPT ![t].enriched =
                                       MunicipalitiesAPI_enrich_with_cantons(unenriched)]
                /\ hist' = [hist EXCEPT !.enrich = @ + 1]
    /\ UNCHANGED <<args, api, fs, denied, today, last, calls, snap, out>>

\* `self._enriched_cache = enriched; return enriched`
T_Store(t) ==
    /\ pc[t] = "store"
    /\ api' = [api EXCEPT !.enriched_cache = <<tl[t].enriched>>]
    /\ pc' = [pc EXCEPT ![t] = "done"]
    /\ UNCHANGED <<args, fs, denied, today, last, calls, hist, tl, snap, out>>

NextRace ==
    \E t \in Threads :
        \/ T_Check(t)
        \/ T_Fetch(t)
        \/ T_Enrich(t)
        \/ T_Store(t)

SpecRace == InitRace /\ [][NextRace]_vars

\* C9: nothing guards the check-then-set on the memo: every thread that saw
\* the memo unset runs its own fetch-or-fallback and its own enrichment pass,
\* so two threads making the first access together run each of them twice.
C9_EveryMissRunsItsOwnPass ==
    /\ hist.fof = Cardinality({t \in Threads : tl[t].miss /\ pc[t] # "fetch"})
    /\ hist.enrich = Cardinality({t \in Threads : tl[t].miss /\ pc[t] \in {"store", "done"}})

C9_Witness ==
    /\ \A t \in Threads : pc[t] = "done" /\ tl[t].miss
    /\ hist.fof = 2
    /\ hist.enrich = 2
    /\ api.enriched_cache # <<>>

(***************************************************************************)
(* _enrich_with_cantons applied to a bounded family of snapshots           *)
(* (specification SpecEnrich).                                             *)
(***************************************************************************)
NameTable == <<"Aa", "Bb", "Cc", "Dd", "Ee", "Ff", "Gg", "Hh">>
ShortNameTable == <<"ZH", "", "be1", "VS", "", "GR", "TI", "">>

Shapes == {"chain", "dangling", "cycle", "self", "none", "star", "rev", "dup"}

\* The Parent column of row i of n under a shape (0: empty).
ParentOf(shape, i, n) ==
    CASE shape = "chain"    -> IF i < n THEN i + 1 ELSE 0
      [] shape = "dangling" -> i + 1
      [] shape = "cycle"    -> (i % n) + 1
      [] shape = "self"     -> i
      [] shape = "none"     -> 0
      [] shape = "star"     -> IF i > 1 THEN 1 ELSE 0
      [] shape = "rev"      -> i - 1
      [] shape = "dup"      -> 1

\* The HistoricalCode column: the row number, but under "dup" the last row
\* repeats the code of the first.
CodeOf(shape, i, n) == IF shape = "dup" /\ i = n THEN 1 ELSE i

Snapshot(shape, n, levels) ==
    [i \in 1..n |->
        MunicipalitiesAPI_parse_row_v1(
            RawRow(CodeOf(shape, i, n), i, NameTable[i], ShortNameTable[i],
                   levels[i], ParentOf(shape, i, n), 0))]

InitEnrich ==
    /\ args \in {a \in RaceArgs : ~a.fallback_allowed}
    /\ denied = {}
    /\ fs = [d \in Dirs |-> [f \in Files |-> Absent]]
    /\ today = 1
    /\ api = NewAPI(args, today).api
    /\ last = NoLast
    /\ calls = 0
    /\ hist = NoHist
    /\ pc = Idle
    /\ tl = NoLocals
    /\ \E n \in 1..MaxRows, shape \in Shapes :
          \E levels \in [1..n -> {1, 2}] : snap = Snapshot(shape, n, levels)
    /\ out = <<>>

\* enriched = self._enrich_with_cantons(unenriched)
Enrich ==
    /\ out = <<>>
    /\ out' = <<MunicipalitiesAPI_enrich_with_cantons(snap)>>
    /\ UNCHANGED <<args, api, fs, denied, today, last, calls, hist, pc, tl, snap>>

NextEnrich == Enrich

SpecEnrich == InitEnrich /\ [][NextEnrich]_vars

\* The record reached from row i after k parent look-ups by historical_code
\* (0: the chain does not get that far).
RECURSIVE Ancestor(_, _, _)
Ancestor(ms, i, k) ==
    IF k = 0 THEN i
    ELSE LET a == Ancestor(ms, i, k - 1)
         IN  IF a = 0 THEN 0
             ELSE IF ms[a].parent = 0 THEN 0
             ELSE by_historical_code(ms, ms[a].parent)

\* The k-th look-up from row i meets a level-1 record, and none before did.
FirstLevel1At(ms, i, k) ==
    /\ Ancestor(ms, i, k) # 0
    /\ ms[Ancestor(ms, i, k)].level = 1
    /\ \A j \in 1..(k - 1) : ms[Ancestor(ms, i, j)].level # 1

\* C10: enrichment gives every level-1 record its own short_name/name as
\* canton_code/canton_name, and every other record with a parent the
\* short_name/name of the first level-1 record on its parent chain when that
\* record is met within 5 look-ups; no other field changes.
C10_CantonFromFirstLevel1Ancestor ==
    out # <<>> =>
        /\ Len(out[1]) = Len(snap)
        /\ \A i \in 1..Len(snap) :
             /\ out[1][i] = [snap[i] EXCEPT !.canton_code = out[1][i].canton_code,
                                            !.canton_name = out[1][i].canton_name]
             /\ snap[i].level = 1 =>
                  /\ out[1][i].canton_code = snap[i].short_name
                  /\ out[1][i].canton_name = snap[i].name
             /\ (snap[i].level # 1 /\ snap[i].parent # 0) =>
                  \A k \in 1..5 :
                     FirstLevel1At(snap, i, k) =>
                        /\ out[1][i].canton_code = snap[Ancestor(snap, i, k)].short_name
                        /\ out[1][i].canton_name = snap[Ancestor(snap, i, k)].name

C10_Witness ==
    /\ out # <<>>
    /\ \E i \in 1..Len(snap) :
          /\ snap[i].level # 1
          /\ FirstLevel1At(snap, i, 5)
          /\ out[1][i].canton_code = "GR"
          /\ out[1][i].canton_name = "Ff"
    /\ \E i \in 1..Len(snap) :
          /\ snap[i].level # 1
          /\ FirstLevel1At(snap, i, 2)
          /\ out[1][i].canton_name = snap[Ancestor(snap, i, 2)].name

\* Look-ups made for record i of the snapshot by the enrichment pass.
LookupsFor(ms, i) ==
    IF ms[i].level # 1 /\ ms[i].parent # 0 THEN parent_lookups(ms, ms[i], 0) ELSE 0

\* C11: for every snapshot (cyclic and self-referencing parent chains
\* included) the enrichment pass completes with at most 5 parent look-ups per
\* record, and a record that is not level 1 and meets no level-1 record in
\* its first 5 look-ups (cap reached, parent unresolved, or no parent) ends
\* with canton_code and canton_name absent.
C11_WalkCappedAtFiveLookups ==
    out # <<>> =>
        \A i \in 1..Len(snap) :
            /\ LookupsFor(snap, i) <= 5
            /\ (snap[i].level # 1 /\ \A k \in 1..5 : ~FirstLevel1At(snap, i, k)) =>
                  /\ out[1][i].canton_code = None
                  /\ out[1][i].canton_name = None

C11_Witness ==
    /\ out # <<>>
    /\ \E i \in 1..Len(snap) :
          /\ snap[i].level # 1
          /\ FirstLevel1At(snap, i, 6)
          /\ LookupsFor(snap, i) = 5
          /\ out[1][i].canton_code = None
          /\ out[1][i].canton_name = None

\* The pattern of MunicipalityV1.canton_code, ^([A-Z]{2}|)$, on the short
\* names in use.
canton_code_pattern(code) == code \in {"", "ZH", "VS", "GR", "TI"}

\* C27: every record of the enriched list has a canton_code that is absent
\* or matches the pattern of the field (two uppercase letters), whatever
\* short_name the level-1 records of the snapshot carry.
C27_EnrichedCantonCodeMatchesPattern ==
    out # <<>> =>
        \A i \in 1..Len(out[1]) :
            \/ out[1][i].canton_code = None
            \/ canton_code_pattern(out[1][i].canton_code)

CantonFields == {"canton_code", "canton_name"}

C24_SameRecordsButCanton ==
    out # <<>> =>
        /\ Len(out[1]) = Len(snap)
        /\ \A i \in 1..Len(snap) :
              /\ DOMAIN out[1][i] = DOMAIN snap[i]
              /\ \A f \in DOMAIN snap[i] \ CantonFields : out[1][i][f] = snap[i][f]

\* C24: the enriched list has the length and the order of the input, each of
\* its records equals the input record at the same place on every field but
\* canton_code and canton_name, and the input list and its records are what
\* they were before the enrichment.
C24_EnrichmentKeepsRecordsAndInput ==
    []C24_SameRecordsButCanton /\ [][snap' = snap]_vars

\* An enrichment of at least three records that found a canton for one
\* record below level 1 and none for another.
C24_Witness ==
    /\ out # <<>>
    /\ Len(snap) >= 3
    /\ \E i \in 1..Len(snap) : snap[i].level # 1 /\ out[1][i].canton_code # None
    /\ \E i \in 1..Len(snap) : out[1][i].canton_code = None


(***************************************************************************)
(* The accessors of PostalCodesAPI and StreetsAPI.                         *)
(***************************************************************************)
\* str.strip() on the argument strings the callers pass.
Strip(text) ==
    CASE text = " zh " -> "zh"
      [] text = " ZH " -> "ZH"
      [] text = " 8001 " -> "8001"
      [] text = " 10" -> "10"
      [] OTHER -> text

\* PostalCodesAPI._parse_row_v1 (the columns the accessors filter on).
PostalCodesAPI_parse_row_v1(row) ==
    [postal_code |-> row.PLZ, bfs_number |-> row.BFS, canton_code |-> row.Kanton,
     locality_name |-> row.Ortschaftsname]

\* StreetsAPI._parse_row_v1 (the columns the accessors filter on).
StreetsAPI_parse_row_v1(row) ==
    [esid |-> row.STR_ESID, postal_codes |-> row.ZIP_LABEL,
     municipality_bfs |-> row.COM_FOSNR, canton_code |-> row.COM_CANTON]

\* StreetV1.postal_code_list: the first token of every non-blank entry of
\* the comma-separated postal_codes field (an entry is a tuple of tokens).
postal_code_list(street) ==
    LET entries == SelectSeq(street.postal_codes, LAMBDA e : e # <<>>)
    IN  [i \in 1..Len(entries) |-> entries[i][1]]

\* The records iter_all() yields from a CSV text, in file order.
iter_all(kind, csv_content) ==
    LET rows == BaseGeoAPI_parse_csv(csv_content)
    IN  [i \in 1..Len(rows) |->
            IF kind = "postal" THEN PostalCodesAPI_parse_row_v1(rows[i])
            ELSE StreetsAPI_parse_row_v1(rows[i])]

\* The `if` of each accessor's loop (op.code: the integer argument,
\* op.canton: the string argument).
Matches(kind, op, rec) ==
    CASE op.name \in {"iter_all", "get_all"} -> TRUE
      [] op.name = "get_by_postal_code" -> rec.postal_code = Strip(op.canton)
      [] op.name \in {"get_by_municipality", "iter_by_municipality"} ->
            IF kind = "postal" THEN rec.bfs_number = op.code
            ELSE rec.municipality_bfs = op.code
      [] op.name \in {"get_by_canton", "iter_by_canton"} ->
            IF kind = "municipalities" THEN rec.canton_code = Upper(op.canton)
            ELSE rec.canton_code = Strip(Upper(op.canton))
      [] op.name = "get_by_esid" -> rec.esid = Strip(op.canton)
      [] op.name = "get_by_bfs_code" -> rec.bfs_code = op.code
      [] op.name = "get_by_historical_code" -> rec.historical_code = op.code
      [] op.name = "get_active" -> is_active(rec)
      [] op.name = "get_historical" -> ~is_active(rec)
      [] op.name = "iter_by_postal_code" ->
            \E i \in 1..Len(postal_code_list(rec)) :
                postal_code_list(rec)[i] = Strip(op.canton)

\* Variant of the loops that yields each distinct record once.
next_match_dedup(kind, op, records, pos) ==
    LET later == {j \in (pos + 1)..Len(records) :
                     /\ Matches(kind, op, records[j])
                     /\ \A k \in 1..(j - 1) : records[k] # records[j]}
    IN  IF later = {} THEN 0 ELSE CHOOSE j \in later : \A k \in later : j <= k

\* The generator loop `for x in self.iter_all(): if ...: yield x`, resumed
\* after record `pos`: the index of the next record yielded (0: exhausted).
next_match(kind, op, records, pos) ==
    LET later == {j \in (pos + 1)..Len(records) : Matches(kind, op, records[j])}
    IN  IF later = {} THEN 0 ELSE CHOOSE j \in later : \A k \in later : j <= k

\* The list comprehension `[x for x in self.iter_all() if ...]`.
RECURSIVE comprehension(_, _, _, _)
comprehension(kind, op, records, pos) ==
    LET j == next_match(kind, op, records, pos)
    IN  IF j = 0 THEN <<>>
        ELSE <<records[j]>> \o comprehension(kind, op, records, j)

\* A list accessor over the records of one iter_all() pass; get_by_esid
\* returns at the first match.
list_accessor(kind, op, records) ==
    LET found == comprehension(kind, op, records, 0)
    IN  IF op.name = "get_by_esid"
        THEN (IF found = <<>> THEN <<>> ELSE <<found[1]>>)
        ELSE found

ListOps(kind) ==
    IF kind = "postal"
    THEN { QueryOp("get_all", 0, ""), QueryOp("get_by_postal_code", 0, " 8001 "),
           QueryOp("get_by_municipality", 261, ""), QueryOp("get_by_canton", 0, " zh ") }
    ELSE { QueryOp("get_all", 0, ""), QueryOp("get_by_esid", 0, " 10"),
           QueryOp("get_by_municipality", 351, ""), QueryOp("get_by_canton", 0, "BE") }

IterOps(kind) ==
    IF kind = "postal"
    THEN { QueryOp("iter_all", 0, ""), QueryOp("iter_by_municipality", 261, ""),
           QueryOp("iter_by_canton", 0, " zh ") }
    ELSE { QueryOp("iter_all", 0, ""), QueryOp("iter_by_municipality", 351, ""),
           QueryOp("iter_by_canton", 0, "BE"), QueryOp("iter_by_postal_code", 0, " 8001 ") }

\* PostalCodesAPI._get_csv_content / StreetsAPI._get_csv_content
get_csv_content(self, fsys, den, net) ==
    IF self.kind = "postal"
    THEN LET fetch == PostalCodesAPI_fetch_remote(self, fsys, den, net)
             fallback == PostalCodesAPI_fetch_fallback(self, fetch.fs, den)
         IN  BaseGeoAPI_fetch_or_fallback(self, fetch, fallback, "postal codes")
    ELSE LET fetch == StreetsAPI_fetch_remote(self, fsys, den, net)
             fallback == StreetsAPI_fetch_fallback(self, fetch.fs, den)
         IN  BaseGeoAPI_fetch_or_fallback(self, fetch, fallback, "streets")

(***************************************************************************)
(* One PostalCodesAPI or StreetsAPI instance, its list accessors and the   *)
(* generator objects its iter_* accessors return (specification            *)
(* SpecAccess).  pc[g]: idle (no generator), created, running, exhausted,   *)
(* raised; tl[g]: the generator's frame.                                   *)
(***************************************************************************)
Generators == {1, 2}

Frame(op, records, pos, yielded) ==
    [op |-> op, records |-> records, pos |-> pos, yielded |-> yielded]

AccessNet(kind) ==
    IF kind = "postal"
    THEN {Net(StacOk, Http(FALSE, "timeout", Absent)), Net(StacOk, Http(TRUE, "", ZipGood)),
          Net(StacOk, Http(TRUE, "", ZipOther))}
    ELSE {Net(Stac(FALSE, "timeout", FALSE, FALSE), Http(FALSE, "timeout", Absent)),
          Net(StacOk, Http(TRUE, "", ZipStreets))}

InitAccess ==
    /\ args \in {a \in ArgSet : /\ a.kind \in {"postal", "streets"}
                                /\ a.model_version = "v1"
                                /\ a.cache_dir = None
                                /\ a.sources_dir = None
                                /\ a.reference_date = 0}
    /\ denied = {}
    /\ \E c \in Seeds(args.kind, SeedCsv(args.kind)) :
          fs = [d \in Dirs |-> [f \in Files |->
                   IF d = DefaultDir /\ f = SeedCsv(args.kind) THEN c ELSE Absent]]
    /\ today = 1
    /\ api = NewAPI(args, today).api
    /\ last = NoLast
    /\ calls = 0
    /\ hist = NoHist
    /\ pc = Idle
    /\ tl = NoLocals
    /\ snap = <<>>
    /\ out = <<>>

\* Variant of an iter_* accessor that fetches when called.
A_IterCall_eager(g) ==
    /\ calls < MaxCalls
    /\ pc[g] = "idle"
    /\ \E op \in IterOps(api.kind), net \in AccessNet(api.kind) :
         LET r == get_csv_content(api, fs, denied, net)
         IN  /\ fs' = r.fs
             /\ tl' = [tl EXCEPT ![g] = Frame(op, <<>>, 0, <<>>)]
             /\ last' = [NoLast EXCEPT !.op = op.name, !.events = r.events]
    /\ pc' = [pc EXCEPT ![g] = "created"]
    /\ hist' = [hist EXCEPT !.fof = @ + 1]
    /\ calls' = calls + 1
    /\ UNCHANGED <<args, api, denied, today, snap, out>>

\* get_all / get_by_*: one iter_all() pass consumed inside the call.
A_ListCall ==
    /\ calls < MaxCalls
    /\ \E op \in ListOps(api.kind), net \in AccessNet(api.kind) :
         LET r == get_csv_content(api, fs, denied, net)
         IN  /\ fs' = r.fs
             /\ last' = [op |-> op.name, err |-> r.err, msg |-> r.msg,
                         value |-> IF r.err = OK
                                   THEN list_accessor(api.kind, op, iter_all(api.kind, r.text))
                                   ELSE <<>>,
                         events |-> r.events, remote |-> None, text |-> r.text]
    /\ hist' = [hist EXCEPT !.fof = @ + 1]
    /\ calls' = calls + 1
    /\ UNCHANGED <<args, api, denied, today, pc, tl, snap, out>>

\* iter_all / iter_by_*: calling a generator function only creates the
\* generator object; no statement of the body runs.
A_IterCall(g) ==
    /\ calls < MaxCalls
    /\ pc[g] = "idle"
    /\ \E op \in IterOps(api.kind) :
         /\ tl' = [tl EXCEPT ![g] = Frame(op, <<>>, 0, <<>>)]
         /\ last' = [NoLast EXCEPT !.op = op.name]
    /\ pc' = [pc EXCEPT ![g] = "created"]
    /\ calls' = calls + 1
    /\ UNCHANGED <<args, api, fs, denied, today, hist, snap, out>>

\* The first next() on a generator: `csv_content = self._get_csv_content()`,
\* then the loop up to the first yield.
A_FirstNext(g) ==
    /\ pc[g] = "created"
    /\ \E net \in AccessNet(api.kind) :
         LET r == get_csv_content(api, fs, denied, net)
             records == iter_all(api.kind, r.text)
             j == next_match(api.kind, tl[g].op, records, 0)
         IN  /\ fs' = r.fs
             /\ last' = [op |-> "next", err |-> r.err, msg |-> r.msg, value |-> <<>>,
                         events |-> r.events, remote |-> None, text |-> r.text]
             /\ IF r.err # OK
                THEN /\ pc' = [pc EXCEPT ![g] = "raised"]
                     /\ tl' = tl
                ELSE IF j = 0
                THEN /\ pc' = [pc EXCEPT ![g] = "exhausted"]
                     /\ tl' = [tl EXCEPT ![g].records = records, ![g].pos = Len(records)]
                ELSE /\ pc' = [pc EXCEPT ![g] = "running"]
                     /\ tl' = [tl EXCEPT ![g].records = records, ![g].pos = j,
                                         ![g].yielded = <<records[j]>>]
    /\ hist' = [hist EXCEPT !.fof = @ + 1]
    /\ UNCHANGED <<args, api, denied, today, calls, snap, out>>

\* A later next(): the loop resumes after the last yield.
A_Next(g) ==
    /\ pc[g] = "running"
    /\ LET j == next_match(api.kind, tl[g].op, tl[g].records, tl[g].pos)
       IN  IF j = 0
           THEN /\ pc' = [pc EXCEPT ![g] = "exhausted"]
                /\ tl' = [tl EXCEPT ![g].pos = Len(tl[g].records)]
           ELSE /\ pc' = pc
                /\ tl' = [tl EXCEPT ![g].pos = j,
                                    ![g].yielded = Append(@, tl[g].records[j])]
    /\ UNCHANGED <<args, api, fs, denied, today, last, calls, hist, snap, out>>

NextAccess ==
    \/ A_ListCall
    \/ \E g \in Generators :
          \/ A_IterCall(g)
          \/ A_FirstNext(g)
          \/ A_Next(g)

SpecAccess == InitAccess /\ [][NextAccess]_vars

\* C12 as stated: N accessor calls have caused N fetch-or-fallback runs.
C12_EveryCallFetchesOnce == hist.fof = calls

C12_FetchCount ==
    hist.fof = calls - Cardinality({g \in Generators : pc[g] = "created"})

\* C12: every list accessor call runs fetch-or-fallback exactly once, with
\* exactly one remote attempt; an iter_* call runs none when called and
\* exactly one when the generator is first advanced; later advances run
\* none; the instance is never changed, so nothing is kept between calls.
C12_OneFetchPerConsumedAccessor ==
    /\ []C12_FetchCount
    /\ [][/\ api' = api
          /\ hist'.fof \in {hist.fof, hist.fof + 1}
          /\ (hist'.fof = hist.fof + 1) =>
                /\ Count(last'.events, "remote") = 1
                /\ \/ calls' = calls + 1 /\ pc' = pc
                   \/ calls' = calls /\ \E g \in Generators :
                                           pc[g] = "created" /\ pc'[g] # "created"
          /\ (hist'.fof = hist.fof) => fs' = fs]_vars

C12_Witness ==
    /\ calls = 3
    /\ hist.fof = 2
    /\ \E g \in Generators : pc[g] = "created"
    /\ \E g \in Generators : pc[g] = "running" /\ Len(tl[g].yielded) = 2

(***************************************************************************)
(* The accessors of the three APIs applied to a bounded family of record   *)
(* sequences, list accessors in one step and generators advanced one       *)
(* yield at a time (specification SpecFilter).                             *)
(***************************************************************************)
MaxLen == 3

Protos(kind) ==
    CASE kind = "postal" ->
            { [postal_code |-> "8001", bfs_number |-> 261, canton_code |-> "ZH",
               locality_name |-> "Zuerich"],
              [postal_code |-> "8002", bfs_number |-> 261, canton_code |-> "ZH",
               locality_name |-> "Zuerich"],
              [postal_code |-> "3000", bfs_number |-> 351, canton_code |-> "BE",
               locality_name |-> "Bern"],
              [postal_code |-> "8001", bfs_number |-> 9, canton_code |-> "",
               locality_name |-> "Anderswo"] }
      [] kind = "streets" ->
            { [esid |-> "10", postal_codes |-> << <<"8001", "Zuerich">> >>,
               municipality_bfs |-> 261, canton_code |-> "ZH"],
              [esid |-> "11", postal_codes |-> << <<"3000", "Bern">>, <<>>, <<"8001", "Bern">> >>,
               municipality_bfs |-> 351, canton_code |-> "BE"],
              [esid |-> "12", postal_codes |-> << >>,
               municipality_bfs |-> 351, canton_code |-> "BE"],
              [esid |-> "10", postal_codes |-> << <<"3000", "Bern">> >>,
               municipality_bfs |-> 261, canton_code |-> "ZH"] }
      [] OTHER ->
            { [MunicipalitiesAPI_parse_row_v1(RawRow(3, 261, "Aeugst am Albis", "Aeugst", 3, 2, 0))
                  EXCEPT !.canton_code = "ZH", !.canton_name = "Zuerich"],
              [MunicipalitiesAPI_parse_row_v1(RawRow(5, 0, "Kyburg", "", 3, 2, 1))
                  EXCEPT !.canton_code = "ZH", !.canton_name = "Zuerich"],
              [MunicipalitiesAPI_parse_row_v1(RawRow(4, 0, "Bern", "BE", 1, 0, 0))
                  EXCEPT !.canton_code = "BE", !.canton_name = "Bern"],
              MunicipalitiesAPI_parse_row_v1(RawRow(6, 0, "Bezirk", "", 2, 9, 0)) }

MuniListOps ==
    { QueryOp("get_all", 0, ""), QueryOp("get_by_canton", 0, "zh"),
      QueryOp("get_active", 0, ""), QueryOp("get_historical", 0, ""),
      QueryOp("get_by_bfs_code", 261, ""), QueryOp("get_by_historical_code", 4, "") }

MuniIterOps == { QueryOp("iter_all", 0, ""), QueryOp("iter_by_canton", 0, "zh") }

FilterListOps(kind) == IF kind = "municipalities" THEN MuniListOps ELSE ListOps(kind)
FilterIterOps(kind) == IF kind = "municipalities" THEN MuniIterOps ELSE IterOps(kind)

InitFilter ==
    /\ args \in {a \in ArgSet : /\ a.model_version = "v1"
                                /\ ~a.fallback_allowed
                                /\ a.cache_dir = None
                                /\ a.sources_dir = None
                                /\ a.reference_date = 0}
    /\ denied = {}
    /\ fs = [d \in Dirs |-> [f \in Files |-> Absent]]
    /\ today = 1
    /\ api = NewAPI(args, today).api
    /\ last = NoLast
    /\ calls = 0
    /\ hist = NoHist
    /\ pc = Idle
    /\ tl = NoLocals
    /\ \E n \in 0..MaxLen : snap \in [1..n -> Protos(args.kind)]
    /\ out = <<>>

\* A list accessor called on an instance whose iter_all() yields `snap`.
F_ListCall ==
    /\ pc[1] = "idle"
    /\ \E op \in FilterListOps(args.kind) :
         /\ tl' = [tl EXCEPT ![1] = Frame(op, snap, Len(snap), <<>>)]
         /\ out' = << IF args.kind = "municipalities"
                      THEN MunicipalitiesAPI_query(op, snap)
                      ELSE list_accessor(args.kind, op, snap) >>
    /\ pc' = [pc EXCEPT ![1] = "returned"]
    /\ UNCHANGED <<args, api, fs, denied, today, last, calls, hist, snap>>

\* A generator accessor called on the same instance.
F_IterCall ==
    /\ pc[1] = "idle"
    /\ \E op \in FilterIterOps(args.kind) :
         tl' = [tl EXCEPT ![1] = Frame(op, snap, 0, <<>>)]
    /\ pc' = [pc EXCEPT ![1] = "running"]
    /\ UNCHANGED <<args, api, fs, denied, today, last, calls, hist, snap, out>>

\* next() on the generator.
F_Next ==
    /\ pc[1] = "running"
    /\ LET j == next_match(args.kind, tl[1].op, tl[1].records, tl[1].pos)
       IN  IF j = 0
           THEN /\ pc' = [pc EXCEPT ![1] = "exhausted"]
                /\ tl' = [tl EXCEPT ![1].pos = Len(tl[1].records)]
           ELSE /\ pc' = pc
                /\ tl' = [tl EXCEPT ![1].pos = j,
                                    ![1].yielded = Append(@, tl[1].records[j])]
    /\ UNCHANGED <<args, api, fs, denied, today, last, calls, hist, snap, out>>

NextFilter ==
    \/ F_ListCall
    \/ F_IterCall
    \/ F_Next

SpecFilter == InitFilter /\ [][NextFilter]_vars

\* The filter an accessor stands for; get_by_X and iter_by_X stand for the
\* same one.
Satisfies(kind, op, rec) ==
    LET family == IF op.name \in {"get_all", "iter_all"} THEN "all"
                  ELSE IF op.name \in {"get_by_canton", "iter_by_canton"} THEN "canton"
                  ELSE IF op.name \in {"get_by_municipality", "iter_by_municipality"}
                       THEN "municipality"
                  ELSE op.name
    IN  CASE family = "all" -> TRUE
          [] family = "canton" ->
                rec.canton_code = (IF op.canton \in {"zh", " zh ", "ZH"} THEN "ZH" ELSE op.canton)
          [] family = "municipality" ->
                IF kind = "postal" THEN rec.bfs_number = op.code
                ELSE rec.municipality_bfs = op.code
          [] family = "get_by_postal_code" -> rec.postal_code = "8001"
          [] family = "iter_by_postal_code" ->
                \E i \in 1..Len(rec.postal_codes) :
                    rec.postal_codes[i] # <<>> /\ rec.postal_codes[i][1] = "8001"
          [] family = "get_by_esid" -> rec.esid = "10"
          [] family = "get_by_bfs_code" -> rec.bfs_code = op.code
          [] family = "get_by_historical_code" -> rec.historical_code = op.code
          [] family = "get_active" -> rec.valid_to = 0
          [] family = "get_historical" -> rec.valid_to # 0

Selected(kind, op, records) == SelectSeq(records, LAMBDA rec : Satisfies(kind, op, rec))

ReturnsOptional(op) ==
    op.name \in {"get_by_esid", "get_by_bfs_code", "get_by_historical_code"}

\* C13: for all three APIs a list accessor returns, and a generator accessor
\* yields, exactly the records of the upstream sequence that satisfy the
\* filter, in upstream order and with duplicates kept (a generator that is
\* still running has yielded a prefix of them); get_by_X and iter_by_X give
\* the same sequence.
C13_FilterIsOrderedSubsequence ==
    LET wanted == Selected(args.kind, tl[1].op, snap)
    IN  /\ pc[1] = "returned" =>
              out[1] = IF ReturnsOptional(tl[1].op)
                       THEN (IF wanted = <<>> THEN <<>> ELSE <<wanted[1]>>)
                       ELSE wanted
        /\ pc[1] = "running" =>
              /\ Len(tl[1].yielded) <= Len(wanted)
              /\ \A i \in 1..Len(tl[1].yielded) : tl[1].yielded[i] = wanted[i]
        /\ pc[1] = "exhausted" => tl[1].yielded = wanted

C13_Witness ==
    /\ pc[1] = "exhausted"
    /\ tl[1].op.name = "iter_by_canton"
    /\ Len(snap) = 3
    /\ Len(tl[1].yielded) = 2
    /\ tl[1].yielded[1] = tl[1].yielded[2]
    /\ snap[2] # snap[1]

(***************************************************************************)
(* StreetsAPI._get_csv_content against a bounded family of STAC responses  *)
(* (specification SpecStac).                                               *)
(***************************************************************************)
GoodAsset == Asset(StreetsZip.base, "https://data/zip", "zip")

FeatureProtos ==
    { Feature("other_item", << GoodAsset >>),
      Feature(None, << GoodAsset >>),
      Feature(StreetsItemId, << GoodAsset >>),
      Feature(StreetsItemId, << >>),
      Feature(StreetsItemId, << Asset(StreetsZip.base, None, None) >>),
      Feature(StreetsItemId, << Asset(StreetsZip.base, None, "zip") >>) }

StacResponses ==
    { StacResponse(FALSE, "timeout", <<>>), StacResponse(FALSE, "invalid JSON", <<>>) }
    \cup { StacResponse(TRUE, "", fs_) :
              fs_ \in UNION { [1..n -> FeatureProtos] : n \in 0..2 } }

InitStac ==
    /\ args \in {a \in ArgSet : /\ a.kind = "streets"
                                /\ a.model_version = "v1"
                                /\ a.cache_dir = None
                                /\ a.sources_dir = None
                                /\ a.reference_date = 0}
    /\ denied = {}
    /\ \E c \in Seeds("streets", StreetsCsv) :
          fs = [d \in Dirs |-> [f \in Files |->
                   IF d = DefaultDir /\ f = StreetsCsv THEN c ELSE Absent]]
    /\ today = 1
    /\ api = NewAPI(args, today).api
    /\ last = NoLast
    /\ calls = 0
    /\ hist = NoHist
    /\ pc = Idle
    /\ tl = NoLocals
    /\ snap \in { <<r>> : r \in StacResponses }
    /\ out = <<>>

\* One get_all() while the STAC endpoint answers with snap[1].
S_GetCsvContent ==
    /\ out = <<>>
    /\ \E dl \in {Http(FALSE, "timeout", Absent), Http(TRUE, "", ZipStreets)} :
         LET net == Net(snap[1], dl)
             fetch == StreetsAPI_fetch_remote(api, fs, denied, net)
             r == get_csv_content(api, fs, denied, net)
         IN  /\ fs' = r.fs
             /\ out' = << [err |-> r.err, remote |-> fetch.err, events |-> r.events] >>
    /\ UNCHANGED <<args, api, denied, today, last, calls, hist, pc, tl, snap>>

NextStac == S_GetCsvContent

SpecStac == InitStac /\ [][NextStac]_vars

\* What C14 counts as an unusable STAC response: the item is missing, a
\* feature before it has no id, the item has no asset of the ZIP's name, or
\* that asset has no href.
StacUnusable(stac) ==
    LET wantedAt == {i \in 1..Len(stac.features) : stac.features[i].id = StreetsItemId}
        w == CHOOSE i \in wantedAt : \A k \in wantedAt : i <= k
        named == {a \in 1..Len(stac.features[w].assets) :
                     stac.features[w].assets[a].name = StreetsZip.base}
    IN  /\ stac.ok
        /\ \/ wantedAt = {}
           \/ \E i \in 1..Len(stac.features) :
                 stac.features[i].id = None /\ \A k \in wantedAt : i < k
           \/ wantedAt # {} /\ named = {}
           \/ wantedAt # {} /\ \E a \in named : stac.features[w].assets[a].href = None

\* C14: an unusable STAC response makes the remote fetch of StreetsAPI fail
\* with RemoteFetchError, so that the fallback is attempted when allowed.
C14_MalformedStacIsRemoteFetchError ==
    (out # <<>> /\ StacUnusable(snap[1])) =>
        /\ out[1].remote = "RemoteFetchError"
        /\ api.fallback_allowed => Count(out[1].events, "fallback") = 1

(***************************************************************************)
(* The download CLI (scripts/download_geodata.py).  A call result carries  *)
(* ret, the boolean returned, and exc, OK or the name of the exception      *)
(* that left the function.                                                 *)
(***************************************************************************)
CliResult(ret, exc, fsys, events) == [ret |-> ret, exc |-> exc, fs |-> fsys, events |-> events]

\* destination.exists() in self.sources_dir
destination_exists(fsys, file) == fsys[DefaultDir][file] # Absent

\* The part of a response body written before the transfer broke off.
Partial == [t |-> "partial"]

\* GeoDataDownloader.download_file: every failure is reported as False.  The
\* body is written to the destination chunk by chunk as it arrives: a
\* response that breaks off after the status line (ok false, body Partial)
\* has by then opened the destination and written what came.
GeoDataDownloader_download_file(fsys, resp, file) ==
    IF ~resp.ok
    THEN [ok |-> FALSE,
          fs |-> IF resp.body = Absent THEN fsys
                 ELSE [fsys EXCEPT ![DefaultDir][file] = resp.body]]
    ELSE [ok |-> TRUE, fs |-> [fsys EXCEPT ![DefaultDir][file] = resp.body]]

\* GeoDataDownloader.extract_zip: extractall next to the archive; a bad
\* archive is reported and ignored.  Of the members only the streets CSV is
\* a file this model tracks.
GeoDataDownloader_extract_zip(fsys, file) ==
    LET z == fsys[DefaultDir][file]
        at == IF z.t = "zip"
              THEN {i \in 1..Len(z.members) : z.members[i].name = StreetsCsv.base}
              ELSE {}
    IN  IF at = {} THEN fsys
        ELSE LET m == z.members[CHOOSE i \in at : TRUE]
             IN  [fsys EXCEPT ![DefaultDir][StreetsCsv] = CsvFile(m.data.bom, m.data.body)]

\* GeoDataDownloader.download_postal_localities
GeoDataDownloader_download_postal_localities(fsys, force, net) ==
    IF destination_exists(fsys, PostalZip) /\ ~force
    THEN CliResult(TRUE, OK, fsys, <<>>)
    ELSE LET d == GeoDataDownloader_download_file(fsys, net.postal, PostalZip)
         IN  CliResult(d.ok, OK,
                       IF d.ok THEN GeoDataDownloader_extract_zip(d.fs, PostalZip) ELSE d.fs,
                       <<"net">>)

\* GeoDataDownloader.download_street_registry: STAC first, then the cached
\* file check.
GeoDataDownloader_download_street_registry(fsys, force, net) ==
    IF ~net.stac.ok
    THEN CliResult(FALSE, OK, fsys, <<"net">>)
    ELSE LET i == find_ch_item(net.stac.features, 1)
         IN  IF i = -1 THEN CliResult(FALSE, "KeyError", fsys, <<"net">>)
             ELSE IF i = 0 THEN CliResult(FALSE, OK, fsys, <<"net">>)
             ELSE LET assets == net.stac.features[i].assets
                      a == assets_get(assets, StreetsZip.base)
                  IN  IF a = 0 \/ ~asset_truthy(assets[a])
                      THEN CliResult(FALSE, OK, fsys, <<"net">>)
                      ELSE IF assets[a].href = None
                      THEN CliResult(FALSE, "KeyError", fsys, <<"net">>)
                      ELSE IF destination_exists(fsys, StreetsZip) /\ ~force
                      THEN CliResult(TRUE, OK, fsys, <<"net">>)
                      ELSE LET d == GeoDataDownloader_download_file(fsys, net.streets,
                                                                    StreetsZip)
                           IN  CliResult(d.ok, OK,
                                         IF d.ok
                                         THEN GeoDataDownloader_extract_zip(d.fs, StreetsZip)
                                         ELSE d.fs,
                                         <<"net", "net">>)

\* GeoDataDownloader.download_municipalities
GeoDataDownloader_download_municipalities(fsys, force, net, reference_date) ==
    IF destination_exists(fsys, MuniCsv(reference_date)) /\ ~force
    THEN CliResult(TRUE, OK, fsys, <<>>)
    ELSE IF ~net.muni.ok \/ net.muni.body.t # "csv"
    THEN CliResult(FALSE, OK, fsys, <<"net">>)
    ELSE LET csv_content == DecodeUtf8Sig(net.muni.body)
             bytes == EncodeUtf8(csv_content)
         IN  CliResult(TRUE, OK,
                       [fsys EXCEPT ![DefaultDir][MuniCsv(reference_date)] =
                                        CsvFile(bytes.bom, bytes.body)],
                       <<"net">>)

\* metadata.json: <<>> when absent, else <<[t, entries]>>: t = "object" (a
\* JSON object), "value" (a JSON array, string, number or null) or
\* "damaged" (json.load fails on it, e.g. a byte order mark before the
\* object); entries maps the keys written in the file to their values.
MetaFile(t, entries) == << [t |-> t, entries |-> entries] >>
MetaEntry(downloaded, reference_date) ==
    [downloaded |-> downloaded, reference_date |-> reference_date]

\* The `metadata` dict download_all builds.
NewMetadata(reference_date, now) ==
    [k \in {PostalZip, StreetsZip, MuniCsv(reference_date)} |->
        MetaEntry(now, IF k = MuniCsv(reference_date) THEN reference_date ELSE 0)]

\* dict.update: the keys of both, the new value where both have one.
dict_update(existing, datasets) ==
    [k \in (DOMAIN existing) \cup (DOMAIN datasets) |->
        IF k \in DOMAIN datasets THEN datasets[k] ELSE existing[k]]

\* GeoDataDownloader.save_metadata
GeoDataDownloader_save_metadata(meta, datasets) ==
    IF meta # <<>> /\ meta[1].t = "value"
    THEN [ret |-> FALSE, exc |-> "AttributeError", meta |-> meta]
    ELSE LET existing_metadata ==
                 IF meta = <<>> \/ meta[1].t = "damaged" THEN <<>> ELSE meta[1].entries
         IN  [ret |-> TRUE, exc |-> OK,
              meta |-> MetaFile("object", dict_update(existing_metadata, datasets))]

Outcome(r) == IF r.exc # OK THEN "raised" ELSE IF r.ret THEN "success" ELSE "failed"

NoResults == [d \in Kinds |-> "not attempted"]

\* GeoDataDownloader.download_all
GeoDataDownloader_download_all(fsys, meta, force, net, reference_date, now) ==
    LET p == GeoDataDownloader_download_postal_localities(fsys, force, net)
        s == GeoDataDownloader_download_street_registry(p.fs, force, net)
        m == GeoDataDownloader_download_municipalities(s.fs, force, net, reference_date)
        sm == GeoDataDownloader_save_metadata(meta, NewMetadata(reference_date, now))
    IN  IF s.exc # OK
        THEN [ret |-> FALSE, exc |-> s.exc, fs |-> s.fs, meta |-> meta,
              results |-> [NoResults EXCEPT !["postal"] = Outcome(p),
                                            !["streets"] = Outcome(s)],
              merged |-> FALSE, summary |-> FALSE]
        ELSE IF sm.exc # OK
        THEN [ret |-> FALSE, exc |-> sm.exc, fs |-> m.fs, meta |-> sm.meta,
              results |-> [d \in Kinds |->
                             CASE d = "postal" -> Outcome(p)
                               [] d = "streets" -> Outcome(s)
                               [] OTHER -> Outcome(m)],
              merged |-> FALSE, summary |-> FALSE]
        ELSE [ret |-> p.ret /\ s.ret /\ m.ret, exc |-> OK, fs |-> m.fs, meta |-> sm.meta,
              results |-> [d \in Kinds |->
                             CASE d = "postal" -> Outcome(p)
                               [] d = "streets" -> Outcome(s)
                               [] OTHER -> Outcome(m)],
              merged |-> TRUE, summary |-> TRUE]

\* main(): the exit status is 0 if the selected download returned True,
\* else 1; an exception that leaves main ends the interpreter with status 1.
main(argv, fsys, meta, net, now) ==
    LET reference_date == IF argv.reference_date = 0 THEN now ELSE argv.reference_date
        one == CASE argv.dataset = "postal" ->
                       GeoDataDownloader_download_postal_localities(fsys, argv.force, net)
                 [] argv.dataset = "streets" ->
                       GeoDataDownloader_download_street_registry(fsys, argv.force, net)
                 [] OTHER ->
                       GeoDataDownloader_download_municipalities(fsys, argv.force, net,
                                                                 reference_date)
        all == GeoDataDownloader_download_all(fsys, meta, argv.force, net,
                                              reference_date, now)
    IN  IF argv.dataset = "all"
        THEN [exit |-> IF all.exc = OK /\ all.ret THEN 0 ELSE 1, exc |-> all.exc,
              fs |-> all.fs, meta |-> all.meta, results |-> all.results,
              merged |-> all.merged, summary |-> all.summary]
        ELSE [exit |-> IF one.exc = OK /\ one.ret THEN 0 ELSE 1, exc |-> one.exc,
              fs |-> one.fs, meta |-> meta,
              results |-> [NoResults EXCEPT ![argv.dataset] = Outcome(one)],
              merged |-> FALSE, summary |-> FALSE]

(***************************************************************************)
(* Runs of the CLI over one sources directory (specification SpecCli).     *)
(* snap is metadata.json; out is the last run: its arguments, what it      *)
(* found and what it did.                                                  *)
(***************************************************************************)
MaxRuns == 2

CliArgs ==
    { a \in [dataset : Kinds \cup {"all"}, force : BOOLEAN, reference_date : {0, MaxDay}] :
        a.dataset \in {"postal", "streets"} => a.reference_date = 0 }

CliNet(postal, stac, streets, muni) ==
    [postal |-> postal, stac |-> stac, streets |-> streets, muni |-> muni]

\* The answers the servers can give to the requests a run can make; the
\* parts a single-dataset run never asks for are fixed.
CliNets(dataset) ==
    { CliNet(p, st, s, m) :
        p \in IF dataset = "postal"
              THEN {Http(FALSE, "timeout", Absent), Http(TRUE, "", ZipGood),
                    Http(FALSE, "connection reset", Partial)}
              ELSE IF dataset = "all"
              THEN {Http(FALSE, "timeout", Absent), Http(TRUE, "", ZipGood)}
              ELSE {Http(FALSE, "timeout", Absent)},
        st \in IF dataset \in {"streets", "all"}
               THEN {StacResponse(FALSE, "timeout", <<>>), StacOk,
                     StacResponse(TRUE, "", << Feature(None, <<>>) >>)}
               ELSE {StacResponse(FALSE, "timeout", <<>>)},
        s \in {Http(TRUE, "", ZipStreets)},
        m \in IF dataset \in {"municipalities", "all"}
              THEN {Http(FALSE, "timeout", Absent), Http(TRUE, "", CsvFile(1, "snapA"))}
              ELSE {Http(FALSE, "timeout", Absent)} }

NoteKey == [base |-> "notes.txt", date |-> 0]

MetaSeeds ==
    { <<>>,
      MetaFile("object", [k \in {NoteKey} |-> MetaEntry(0, 0)]),
      MetaFile("object", [k \in {NoteKey, PostalZip} |-> MetaEntry(0, 0)]),
      MetaFile("damaged", [k \in {NoteKey} |-> MetaEntry(0, 0)]),
      MetaFile("value", <<>>) }

DatasetFile(d, reference_date) ==
    CASE d = "postal" -> PostalZip
      [] d = "streets" -> StreetsZip
      [] OTHER -> MuniCsv(reference_date)

InitCli ==
    /\ args = [dataset |-> "all", force |-> FALSE, reference_date |-> 0]
    /\ denied = {}
    /\ \E p \in {Absent, ZipMulti}, s \in {Absent, ZipStreetsOld},
          m \in {Absent, CsvFile(0, "snapB")} :
          fs = [d \in Dirs |-> [f \in Files |->
                   IF d # DefaultDir THEN Absent
                   ELSE IF f = PostalZip THEN p
                   ELSE IF f = StreetsZip THEN s
                   ELSE IF f = MuniCsv(1) THEN m
                   ELSE Absent]]
    /\ today = 1
    /\ api = NoApi
    /\ last = NoLast
    /\ calls = 0
    /\ hist = NoHist
    /\ pc = Idle
    /\ tl = NoLocals
    /\ snap \in MetaSeeds
    /\ out = <<>>

\* python scripts/download_geodata.py [--force] [--dataset D] [--reference-date R]
Run ==
    /\ calls < MaxRuns
    /\ \E argv \in CliArgs : \E net \in CliNets(argv.dataset) :
         LET r == main(argv, fs, snap, net, today)
             reference_date == IF argv.reference_date = 0 THEN today
                               ELSE argv.reference_date
             attempted == {d \in Kinds : r.results[d] # "not attempted"}
         IN  /\ args' = argv
             /\ fs' = r.fs
             /\ snap' = r.meta
             /\ out' = << [exit |-> r.exit, exc |-> r.exc, results |-> r.results,
                           attempted |-> attempted,
                           merged |-> r.merged, summary |-> r.summary,
                           existed |-> {d \in Kinds :
                                          destination_exists(fs, DatasetFile(d, reference_date))},
                           modified |-> {d \in Kinds :
                                          r.fs[DefaultDir][DatasetFile(d, reference_date)]
                                              # fs[DefaultDir][DatasetFile(d, reference_date)]},
                           requested |->
                              {d \in attempted :
                                 CASE d = "postal" ->
                                        GeoDataDownloader_download_postal_localities(
                                            fs, argv.force, net).events # <<>>
                                   [] d = "streets" ->
                                        Len(GeoDataDownloader_download_street_registry(
                                                fs, argv.force, net).events) = 2
                                   [] OTHER ->
                                        GeoDataDownloader_download_municipalities(
                                            fs, argv.force, net, reference_date).events # <<>>},
                           stac |-> net.stac,
                           before |-> snap,
                           written |-> IF argv.dataset = "all"
                                       THEN DOMAIN NewMetadata(reference_date, today)
                                       ELSE {}] >>
    /\ calls' = calls + 1
    /\ UNCHANGED <<api, denied, today, last, hist, pc, tl>>

NextCli == Run

SpecCli == InitCli /\ [][NextCli]_vars

\* C15: the CLI exits with status 0 exactly when every dataset it attempted
\* in the run reported success, and with status 1 otherwise.
C15_ExitZeroIffAllSucceeded ==
    out # <<>> =>
        (out[1].exit = 0 <=> \A d \in out[1].attempted : out[1].results[d] = "success")

\* C16: in an all-datasets run (over a metadata.json that is absent or a
\* JSON object) a dataset's failure stays with that dataset: all three are
\* attempted, the metadata merge and the summary run, nothing is raised.
C16_FailureIsolatedInAllRun ==
    (/\ out # <<>>
     /\ args.dataset = "all"
     /\ (out[1].before = <<>> \/ out[1].before[1].t = "object")
     /\ \E d \in Kinds : out[1].results[d] \in {"failed", "raised"}) =>
        /\ out[1].attempted = Kinds
        /\ \A d \in Kinds : out[1].results[d] # "raised"
        /\ out[1].exc = OK
        /\ out[1].merged
        /\ out[1].summary

\* C17: without --force a dataset whose cached file exists is reported as
\* success and its file is left as it was, whatever the network does; with
\* --force a dataset reported as success was requested from the network.
C17_CachedFileSkippedWithoutForce ==
    out # <<>> =>
        \A d \in out[1].attempted :
            /\ (~args.force /\ d \in out[1].existed) =>
                  /\ d \notin out[1].modified
                  /\ out[1].results[d] = "success"
            /\ (args.force /\ out[1].results[d] = "success") => d \in out[1].requested

\* C18: whatever metadata.json held before a run, every entry in it whose
\* key the run does not write is still there afterwards with its old value.
C18_UnrelatedEntriesKept ==
    (out # <<>> /\ out[1].before # <<>>) =>
        \A k \in DOMAIN out[1].before[1].entries :
            k \notin out[1].written =>
                /\ snap # <<>>
                /\ k \in DOMAIN snap[1].entries
                /\ snap[1].entries[k] = out[1].before[1].entries[k]

\* C30: a dataset file in the sources directory is always a complete
\* download: a transfer that broke off has left no file at the destination.
C30_CachedDatasetFileIsComplete ==
    \A f \in Files : fs[DefaultDir][f] # Partial

(***************************************************************************)
(* The country-code importer (importers/base.py and                        *)
(* importers/bfs_country_importer.py).  It works on a project tree: the    *)
(* workbook and its metadata sidecar under sources/bfs, and the package    *)
(* marker, the generated asset and the VERSION marker under generated/bfs. *)
(***************************************************************************)
source_file == "be-b-00.04-sg-01.xlsx"
sheet_name == "Stat_Geb"

InitPy == "__init__.py"
CountryCodesPy == "country_codes.py"
VersionFile == "VERSION"

\* The text ensure_init_files writes to __init__.py.
PackageMarker == [t |-> "text", body |-> "Auto-generated data."]

Tree(workbook, sidecar, init, asset, version) ==
    [workbook |-> workbook, sidecar |-> sidecar,
     init |-> init, asset |-> asset, version |-> version]

\* Cells of a worksheet row as openpyxl hands them over with values_only.
NoCell == [t |-> "none"]
IntCell(n) == [t |-> "int", n |-> n]
StrCell(s) == [t |-> "str", s |-> s]

\* Python truthiness of a cell value.
Truthy(cell) ==
    CASE cell.t = "none" -> FALSE
      [] cell.t = "int" -> cell.n # 0
      [] OTHER -> cell.s # ""

\* str(value) of a cell value.
py_str(cell) ==
    CASE cell.t = "str" -> cell.s
      [] cell.t = "none" -> "None"
      [] cell.n = 8100 -> "8100"
      [] cell.n = 8207 -> "8207"
      [] cell.n = 8310 -> "8310"
      [] cell.n = 9999 -> "9999"
      [] OTHER -> "0"

Langs == {"de", "fr", "it", "en"}

\* A worksheet row: columns A, C, D, E..H and W.
Row(bfs_code, iso2, iso3, names, valid) ==
    [bfs_code |-> bfs_code, iso2 |-> iso2, iso3 |-> iso3,
     names |-> names, valid |-> valid]

Workbook(sheets, rows) == [t |-> "xlsx", sheets |-> sheets, rows |-> rows]
Unreadable == [t |-> "unreadable"]

\* A JSON document: an object with its members, another JSON value, or
\* bytes that are not JSON.
JsonObject(members) == [t |-> "object", members |-> members]
JsonValue == [t |-> "value"]
NotJson == [t |-> "damaged"]

EmptyDict == <<>>

dict_get(d, key, default) == IF key \in DOMAIN d THEN d[key] ELSE default

ImportOutcome(ret, exc, tree, written) ==
    [ret |-> ret, exc |-> exc, tree |-> tree, written |-> written]

\* BaseImporter.read_metadata("bfs")
BaseImporter_read_metadata(tree) ==
    IF tree.sidecar # Absent
    THEN IF tree.sidecar.t = "damaged"
         THEN [exc |-> "JSONDecodeError", value |-> JsonObject(EmptyDict)]
         ELSE [exc |-> OK, value |-> tree.sidecar]
    ELSE [exc |-> OK, value |-> JsonObject(EmptyDict)]

\* BaseImporter.write_version_file(output_dir, source_file, metadata)
BaseImporter_write_version_file(tree, source, metadata, now) ==
    [tree EXCEPT !.version =
        [generated |-> now, source |-> source,
         lines |-> IF DOMAIN metadata # {}
                   THEN << dict_get(metadata, "version", "unknown"),
                           dict_get(metadata, "downloaded", "unknown") >>
                   ELSE << >>]]

\* BaseImporter.ensure_init_files(output_dir)
BaseImporter_ensure_init_files(tree) ==
    IF tree.init = Absent
    THEN [tree |-> [tree EXCEPT !.init = PackageMarker], written |-> {InitPy}]
    ELSE [tree |-> tree, written |-> {}]

\* BaseImporter.generate_python_header(source_file, description)
BaseImporter_generate_python_header(source, description, now) ==
    [generated |-> now, source |-> source, description |-> description,
     data_provider |-> "Swiss Federal Statistical Office (BFS)",
     importer_script |-> "bfs_country_importer.py"]

\* name.replace("'", "\\'")
escape_quotes(name) ==
    CASE name = "Cote d'Ivoire" -> "Cote d\\'Ivoire"
      [] OTHER -> name

\* A row loop that does not look at the validity flag.
RECURSIVE parse_rows_any_validity(_, _, _)
parse_rows_any_validity(rows, i, countries) ==
    IF i > Len(rows) THEN countries
    ELSE LET row == rows[i]
             entry == [bfs_code |-> py_str(row.bfs_code),
                       iso3 |-> IF Truthy(row.iso3) THEN row.iso3.s ELSE "",
                       names |-> [l \in Langs |->
                                    IF Truthy(row.names[l]) THEN row.names[l].s ELSE ""]]
         IN  IF i = 1 THEN parse_rows_any_validity(rows, i + 1, countries)
             ELSE IF Truthy(row.bfs_code) /\ Truthy(row.iso2)
             THEN parse_rows_any_validity(rows, i + 1,
                      [k \in DOMAIN countries \cup {row.iso2.s} |->
                          IF k = row.iso2.s THEN entry ELSE countries[k]])
             ELSE parse_rows_any_validity(rows, i + 1, countries)

\* The loop over ws.iter_rows: row i of `rows` onward, into `countries`.
RECURSIVE parse_rows(_, _, _)
parse_rows(rows, i, countries) ==
    IF i > Len(rows) THEN countries
    ELSE LET row == rows[i]
             entry == [bfs_code |-> py_str(row.bfs_code),
                       iso3 |-> IF Truthy(row.iso3) THEN row.iso3.s ELSE "",
                       names |-> [l \in Langs |->
                                    IF Truthy(row.names[l]) THEN row.names[l].s ELSE ""]]
         IN  IF i = 1 THEN parse_rows(rows, i + 1, countries)
             ELSE IF row.valid = StrCell("J") /\ Truthy(row.bfs_code) /\ Truthy(row.iso2)
             THEN parse_rows(rows, i + 1,
                      [k \in DOMAIN countries \cup {row.iso2.s} |->
                          IF k = row.iso2.s THEN entry ELSE countries[k]])
             ELSE parse_rows(rows, i + 1, countries)

\* Order of the ISO codes in use (sorted() of strings).
IsoRank(iso2) ==
    CASE iso2 = "CH" -> 1
      [] iso2 = "CI" -> 2
      [] iso2 = "DD" -> 3
      [] iso2 = "DE" -> 4
      [] iso2 = "XK" -> 5
      [] OTHER -> 6

\* sorted(keys)
RECURSIVE sorted(_)
sorted(keys) ==
    IF keys = {} THEN << >>
    ELSE LET first == CHOOSE k \in keys : \A o \in keys : IsoRank(k) <= IsoRank(o)
         IN  << first >> \o sorted(keys \ {first})

\* The text written to country_codes.py: the header and the COUNTRY_CODES
\* literal, one entry per key in the order of sorted(countries.keys()) (the
\* helper functions after it are a fixed block).
GeneratedAsset(header, countries) ==
    LET keys == sorted(DOMAIN countries)
    IN  [header |-> header,
         COUNTRY_CODES |->
            [i \in 1..Len(keys) |->
                [iso2 |-> keys[i],
                 bfs_code |-> countries[keys[i]].bfs_code,
                 iso3 |-> countries[keys[i]].iso3,
                 names |-> [l \in Langs |-> escape_quotes(countries[keys[i]].names[l])]]]]

\* An import that regenerates whether or not the output exists.
BFSCountryImporter_import_country_codes_regenerate(tree, force, now) ==
    IF tree.workbook = Absent
    THEN ImportOutcome("False", OK, tree, {})
    ELSE LET metadata == BaseImporter_read_metadata(tree) IN
         IF metadata.exc # OK
         THEN ImportOutcome("raise", metadata.exc, tree, {})
         ELSE IF metadata.value.t # "object"
         THEN ImportOutcome("raise", "AttributeError", tree, {})
         ELSE IF tree.workbook.t = "unreadable"
         THEN ImportOutcome("raise", "InvalidFileException", tree, {})
         ELSE IF sheet_name \notin tree.workbook.sheets
         THEN ImportOutcome("False", OK, tree, {})
         ELSE LET file_metadata == dict_get(metadata.value.members, source_file, EmptyDict)
                  countries == parse_rows(tree.workbook.rows, 1, EmptyDict)
                  made == BaseImporter_ensure_init_files(tree)
                  header == BaseImporter_generate_python_header(
                                source_file,
                                dict_get(file_metadata, "description", "BFS country codes"),
                                now)
                  generated == [made.tree EXCEPT !.asset = GeneratedAsset(header, countries)]
              IN  ImportOutcome("True", OK,
                      BaseImporter_write_version_file(generated, source_file,
                                                      file_metadata, now),
                      made.written \cup {CountryCodesPy, VersionFile})

\* An import that writes the package marker, the asset and the VERSION
\* marker for a workbook without the expected sheet, as for an empty one.
BFSCountryImporter_import_country_codes_any_sheet(tree, force, now) ==
    IF ~force /\ tree.asset # Absent
    THEN ImportOutcome("True", OK, tree, {})
    ELSE IF tree.workbook = Absent
    THEN ImportOutcome("False", OK, tree, {})
    ELSE LET metadata == BaseImporter_read_metadata(tree) IN
         IF metadata.exc # OK
         THEN ImportOutcome("raise", metadata.exc, tree, {})
         ELSE IF metadata.value.t # "object"
         THEN ImportOutcome("raise", "AttributeError", tree, {})
         ELSE IF tree.workbook.t = "unreadable"
         THEN ImportOutcome("raise", "InvalidFileException", tree, {})
         ELSE LET file_metadata == dict_get(metadata.value.members, source_file, EmptyDict)
                  countries == IF sheet_name \in tree.workbook.sheets
                               THEN parse_rows(tree.workbook.rows, 1, EmptyDict)
                               ELSE EmptyDict
                  made == BaseImporter_ensure_init_files(tree)
                  header == BaseImporter_generate_python_header(
                                source_file,
                                dict_get(file_metadata, "description", "BFS country codes"),
                                now)
                  generated == [made.tree EXCEPT !.asset = GeneratedAsset(header, countries)]
              IN  ImportOutcome(IF sheet_name \in tree.workbook.sheets THEN "True" ELSE "False",
                      OK,
                      BaseImporter_write_version_file(generated, source_file,
                                                      file_metadata, now),
                      made.written \cup {CountryCodesPy, VersionFile})

\* BFSCountryImporter.import_country_codes(force)
BFSCountryImporter_import_country_codes(tree, force, now) ==
    IF ~force /\ tree.asset # Absent
    THEN ImportOutcome("True", OK, tree, {})
    ELSE IF tree.workbook = Absent
    THEN ImportOutcome("False", OK, tree, {})
    ELSE LET metadata == BaseImporter_read_metadata(tree) IN
         IF metadata.exc # OK
         THEN ImportOutcome("raise", metadata.exc, tree, {})
         ELSE IF metadata.value.t # "object"
         THEN ImportOutcome("raise", "AttributeError", tree, {})
         ELSE IF tree.workbook.t = "unreadable"
         THEN ImportOutcome("raise", "InvalidFileException", tree, {})
         ELSE IF sheet_name \notin tree.workbook.sheets
         THEN ImportOutcome("False", OK, tree, {})
         ELSE LET file_metadata == dict_get(metadata.value.members, source_file, EmptyDict)
                  countries == parse_rows(tree.workbook.rows, 1, EmptyDict)
                  made == BaseImporter_ensure_init_files(tree)
                  header == BaseImporter_generate_python_header(
                                source_file,
                                dict_get(file_metadata, "description", "BFS country codes"),
                                now)
                  generated == [made.tree EXCEPT !.asset = GeneratedAsset(header, countries)]
              IN  ImportOutcome("True", OK,
                      BaseImporter_write_version_file(generated, source_file,
                                                      file_metadata, now),
                      made.written \cup {CountryCodesPy, VersionFile})

\* main() of bfs_country_importer.py: the outcome of the import and the
\* exit status of the process.
importer_main(tree, force, now) ==
    LET r == BFSCountryImporter_import_country_codes(tree, force, now)
    IN  [ret |-> r.ret, exc |-> r.exc, tree |-> r.tree, written |-> r.written,
         exit |-> IF r.ret = "True" THEN 0 ELSE 1]

(***************************************************************************)
(* Runs of the importer over one project tree (specification SpecImport).  *)
(* fs is the project tree, today the clock, hist the results of the runs   *)
(* so far, out the last run: its flag, the tree before and after it, what  *)
(* it wrote and how it ended.                                              *)
(***************************************************************************)
Header == Row(StrCell("BFS"), StrCell("ISO2"), StrCell("ISO3"),
              [l \in Langs |-> StrCell("Name")], StrCell("Valid"))

Names(de) == [l \in Langs |-> IF l = "de" THEN StrCell(de) ELSE NoCell]

RowCH == Row(IntCell(8100), StrCell("CH"), StrCell("CHE"), Names("Schweiz"), StrCell("J"))
RowDE == Row(IntCell(8207), StrCell("DE"), StrCell("DEU"), Names("Deutschland"), StrCell("J"))
RowCI == Row(IntCell(8310), StrCell("CI"), NoCell, Names("Cote d'Ivoire"), StrCell("J"))
RowOld == Row(IntCell(8207), StrCell("DD"), StrCell("DDR"), Names("DDR"), StrCell("N"))
RowLowerJ == Row(IntCell(8207), StrCell("DD"), StrCell("DDR"), Names("DDR"), StrCell("j"))
RowUnflagged == Row(IntCell(8310), StrCell("CI"), NoCell, Names("Cote d'Ivoire"), NoCell)
RowCHfr == Row(StrCell("8100"), StrCell("CH"), NoCell,
               [l \in Langs |-> IF l = "fr" THEN StrCell("Suisse") ELSE NoCell], StrCell("J"))
RowNoIso == Row(IntCell(8100), NoCell, NoCell, Names("Gebiet"), StrCell("J"))
RowNoBfs == Row(NoCell, StrCell("XK"), NoCell, Names("Kosovo"), StrCell("J"))

Workbooks ==
    { Absent, Unreadable,
      Workbook({"Tabelle1"}, << >>),
      Workbook({"stat_geb", "Stat_Geb "}, << >>),
      Workbook({sheet_name}, << Header >>),
      Workbook({sheet_name, "Tabelle1"}, << Header, RowCH, RowDE >>),
      Workbook({sheet_name}, << Header, RowDE, RowOld, RowCI >>),
      Workbook({sheet_name}, << Header, RowNoIso, RowNoBfs, RowCH >>),
      Workbook({sheet_name}, << Header, RowDE, RowLowerJ, RowCI, RowCH >>),
      Workbook({sheet_name}, << Header, RowCH, RowUnflagged, RowCHfr >>) }

Sidecars ==
    { Absent, NotJson, JsonValue,
      JsonObject(EmptyDict),
      JsonObject([f \in {source_file} |-> [version |-> "2024"]]),
      JsonObject([f \in {source_file} |->
                    [version |-> "2024", downloaded |-> "2024-01-15",
                     description |-> "Staaten- und Gebietsverzeichnis"]]) }

\* The asset as the repository ships it, generated before the first run.
ShippedAsset ==
    GeneratedAsset(BaseImporter_generate_python_header(source_file, "BFS country codes", 0),
                   parse_rows(<< Header, RowCH >>, 1, EmptyDict))

NoTree == Tree(Absent, Absent, Absent, Absent, Absent)

InitImport ==
    /\ args = [force |-> FALSE]
    /\ denied = {}
    /\ \E w \in Workbooks, s \in Sidecars, a \in {Absent, ShippedAsset} :
          fs = Tree(w, s, Absent, a, Absent)
    /\ today = 1
    /\ api = NoApi
    /\ last = NoLast
    /\ calls = 0
    /\ hist = << >>
    /\ pc = Idle
    /\ tl = NoLocals
    /\ snap = << >>
    /\ out = << >>

\* python importers/bfs_country_importer.py [--force]
RunImporter ==
    /\ calls < MaxRuns
    /\ \E force \in BOOLEAN :
         LET r == importer_main(fs, force, today)
         IN  /\ args' = [force |-> force]
             /\ fs' = r.tree
             /\ hist' = Append(hist, r.ret)
             /\ out' = << [force |-> force, before |-> fs, after |-> r.tree,
                           written |-> r.written, ret |-> r.ret, exc |-> r.exc,
                           exit |-> r.exit] >>
    /\ calls' = calls + 1
    /\ today' = today + 1
    /\ UNCHANGED <<api, denied, last, pc, tl, snap>>

\* Between two runs the maintainer puts another workbook into sources/bfs.
ReplaceWorkbook ==
    /\ calls < MaxRuns
    /\ \E w \in Workbooks \ {fs.workbook} : fs' = [fs EXCEPT !.workbook = w]
    /\ UNCHANGED <<args, api, denied, today, last, calls, hist, pc, tl, snap, out>>

NextImport ==
    \/ RunImporter
    \/ ReplaceWorkbook

SpecImport == InitImport /\ [][NextImport]_vars

\* C19: a run without --force over a tree that holds the generated asset
\* writes nothing (asset, VERSION marker and package marker are what they
\* were) and returns success; and every run that returns success leaves the
\* asset in place, so this is the case of every later run without --force.
C19_NonForcedRunOverExistingAssetWritesNothing ==
    out # << >> =>
        /\ (~out[1].force /\ out[1].before.asset # Absent) =>
              /\ out[1].ret = "True"
              /\ out[1].exit = 0
              /\ out[1].written = {}
              /\ out[1].after = out[1].before
        /\ out[1].ret = "True" => fs.asset # Absent

\* A second run without --force after a first run that generated the asset.
C19_Witness ==
    /\ calls = 2
    /\ hist = << "True", "True" >>
    /\ ~out[1].force
    /\ out[1].before.version # Absent
    /\ out[1].before.version.generated = 1
    /\ out[1].written = {}

\* The workbook of a tree is missing, or is a workbook without the sheet.
SourceMissingOrWithoutSheet(tree) ==
    \/ tree.workbook = Absent
    \/ /\ tree.workbook.t = "xlsx"
       /\ sheet_name \notin tree.workbook.sheets

Present(cell) == cell.t # "none" /\ (cell.t = "str" => cell.s # "")

\* Row k of the sheet is a data row that is flagged valid and carries a BFS
\* code and an ISO alpha-2 code.
Qualifies(rows, k) ==
    /\ k \in 2..Len(rows)
    /\ rows[k].valid.t = "str"
    /\ rows[k].valid.s = "J"
    /\ Present(rows[k].bfs_code)
    /\ Present(rows[k].iso2)

\* C25: the mapping a generating run writes has an entry for c exactly when a
\* data row of the sheet flagged 'J' with a BFS code has ISO alpha-2 c; every
\* entry is that of such a row, with "" for each missing name cell; the
\* entries stand once each, in ascending order of their ISO codes.
C25_MappingHoldsTheValidRowsSorted ==
    (out # << >> /\ CountryCodesPy \in out[1].written) =>
        LET rows == out[1].before.workbook.rows
            literal == out[1].after.asset.COUNTRY_CODES
        IN  /\ {literal[i].iso2 : i \in 1..Len(literal)}
                  = {rows[k].iso2.s : k \in {n \in 1..Len(rows) : Qualifies(rows, n)}}
            /\ \A i \in 1..Len(literal) :
                  \E k \in 1..Len(rows) :
                     /\ Qualifies(rows, k)
                     /\ rows[k].iso2.s = literal[i].iso2
                     /\ \A l \in Langs :
                           IF Present(rows[k].names[l])
                           THEN literal[i].names[l] = escape_quotes(rows[k].names[l].s)
                           ELSE literal[i].names[l] = ""
            /\ \A i, j \in 1..Len(literal) :
                  i < j => IsoRank(literal[i].iso2) < IsoRank(literal[j].iso2)

\* A run over a sheet whose rows stand in another order than their ISO codes
\* and which holds rows without flag, BFS code or ISO code.
C25_Witness ==
    /\ out # << >>
    /\ CountryCodesPy \in out[1].written
    /\ Len(out[1].after.asset.COUNTRY_CODES) = 3
    /\ Len(out[1].before.workbook.rows) = 5
    /\ out[1].before.workbook.rows[2].iso2 = StrCell("DE")
    /\ out[1].after.asset.COUNTRY_CODES[1].iso2 = "CH"

(***************************************************************************)
(* The country lookup API (openmun_opendata/countries.py) over the mapping *)
(* COUNTRY_CODES it imports from the generated asset.  Names and queries   *)
(* are compared as texts: Chars gives the characters of the strings in use.*)
(***************************************************************************)
Chars(s) ==
    CASE s = "Schweiz" -> << "S", "c", "h", "w", "e", "i", "z" >>
      [] s = "SCHWEIZ" -> << "S", "C", "H", "W", "E", "I", "Z" >>
      [] s = "Schw" -> << "S", "c", "h", "w" >>
      [] s = "Suisse" -> << "S", "u", "i", "s", "s", "e" >>
      [] s = "Svizzera" -> << "S", "v", "i", "z", "z", "e", "r", "a" >>
      [] s = "Switzerland" -> << "S", "w", "i", "t", "z", "e", "r", "l", "a", "n", "d" >>
      [] s = "land" -> << "l", "a", "n", "d" >>
      [] s = "Deutschland" -> << "D", "e", "u", "t", "s", "c", "h", "l", "a", "n", "d" >>
      [] s = "Cote d'Ivoire" -> << "C", "o", "t", "e", " ", "d", "'", "I", "v", "o", "i", "r", "e" >>
      [] s = "Kosovo" -> << "K", "o", "s", "o", "v", "o" >>
      [] s = "sch" -> << "s", "c", "h" >>
      [] s = "xyz" -> << "x", "y", "z" >>
      [] OTHER -> << >>

\* str.lower() of one character.
lower_char(c) ==
    CASE c = "S" -> "s" [] c = "C" -> "c" [] c = "H" -> "h" [] c = "W" -> "w"
      [] c = "E" -> "e" [] c = "I" -> "i" [] c = "Z" -> "z" [] c = "D" -> "d"
      [] c = "K" -> "k"
      [] OTHER -> c

str_lower(text) == [i \in 1..Len(text) |-> lower_char(text[i])]

\* `needle in text` of two Python strings.
str_in(needle, text) ==
    \E i \in 0..Len(text) :
        /\ i + Len(needle) <= Len(text)
        /\ \A j \in 1..Len(needle) : text[i + j] = needle[j]

\* The value of a quoted literal of the generated module.
unescape_quotes(literal) ==
    CASE literal = "Cote d\\'Ivoire" -> "Cote d'Ivoire"
      [] OTHER -> literal

\* `from generated.bfs.country_codes import COUNTRY_CODES`, {} on ImportError:
\* the dict the literal evaluates to.
import_COUNTRY_CODES(asset) ==
    IF asset = Absent THEN EmptyDict
    ELSE LET literal == asset.COUNTRY_CODES
             at(iso2) == CHOOSE i \in 1..Len(literal) :
                             /\ literal[i].iso2 = iso2
                             /\ \A j \in (i + 1)..Len(literal) : literal[j].iso2 # iso2
         IN  [iso2 \in {literal[i].iso2 : i \in 1..Len(literal)} |->
                [bfs_code |-> literal[at(iso2)].bfs_code,
                 iso3 |-> literal[at(iso2)].iso3,
                 names |-> [l \in Langs |-> unescape_quotes(literal[at(iso2)].names[l])]]]

Country(iso2, data) ==
    [iso2 |-> iso2, bfs_code |-> data.bfs_code, iso3 |-> data.iso3,
     name_de |-> data.names["de"], name_fr |-> data.names["fr"],
     name_it |-> data.names["it"], name_en |-> data.names["en"]]

\* Country.get_name(language): << name >>
Country_get_name(self, language) ==
    CASE language = "de" -> << self.name_de >>
      [] language = "fr" -> << self.name_fr >>
      [] language = "it" -> << self.name_it >>
      [] language = "en" -> << self.name_en >>
      [] OTHER -> << self.name_de >>

\* get_country(iso_code): << >> for None, << country >> otherwise.
get_country(COUNTRY_CODES, iso_code) ==
    IF Upper(iso_code) \in DOMAIN COUNTRY_CODES
    THEN << Country(Upper(iso_code), COUNTRY_CODES[Upper(iso_code)]) >>
    ELSE << >>

\* The scan of get_country_by_bfs over the items from position i on.
RECURSIVE scan_bfs(_, _, _, _)
scan_bfs(COUNTRY_CODES, items, i, bfs_str) ==
    IF i > Len(items) THEN << >>
    ELSE IF COUNTRY_CODES[items[i]].bfs_code = bfs_str
    THEN << Country(items[i], COUNTRY_CODES[items[i]]) >>
    ELSE scan_bfs(COUNTRY_CODES, items, i + 1, bfs_str)

\* A reverse lookup that compares the argument without str().
get_country_by_bfs_uncoerced(COUNTRY_CODES, bfs_code) ==
    IF bfs_code.t = "str"
    THEN scan_bfs(COUNTRY_CODES, sorted(DOMAIN COUNTRY_CODES), 1, bfs_code.s)
    ELSE << >>

\* get_country_by_bfs(bfs_code); the items come in the order of the literal.
get_country_by_bfs(COUNTRY_CODES, bfs_code) ==
    scan_bfs(COUNTRY_CODES, sorted(DOMAIN COUNTRY_CODES), 1, py_str(bfs_code))

\* get_all_countries()
get_all_countries(COUNTRY_CODES) ==
    LET keys == sorted(DOMAIN COUNTRY_CODES)
    IN  [i \in 1..Len(keys) |-> get_country(COUNTRY_CODES, keys[i])[1]]

\* search_countries(query, language)
search_countries(COUNTRY_CODES, query, language) ==
    LET query_lower == str_lower(Chars(query))
    IN  SelectSeq(get_all_countries(COUNTRY_CODES),
                  LAMBDA country :
                      str_in(query_lower,
                             str_lower(Chars(Country_get_name(country, language)[1]))))


(***************************************************************************)
(* Calls of the country lookup API (specification SpecCountry).  snap is   *)
(* COUNTRY_CODES as imported when the module was loaded, out the last call *)
(* and what it returned.                                                   *)
(***************************************************************************)
RowCH4 == Row(IntCell(8100), StrCell("CH"), StrCell("CHE"),
              [l \in Langs |-> StrCell(CASE l = "de" -> "Schweiz" [] l = "fr" -> "Suisse"
                                         [] l = "it" -> "Svizzera" [] OTHER -> "Switzerland")],
              StrCell("J"))

\* Assets the importer generates, and the asset that cannot be imported.
CountryAssets ==
    { Absent }
    \cup { GeneratedAsset(BaseImporter_generate_python_header(source_file, "BFS country codes", 0),
                          parse_rows(rows, 1, EmptyDict)) :
             rows \in { << Header >>,
                        << Header, RowCH4 >>,
                        << Header, RowCH4, RowDE, RowCI >>,
                        << Header, RowCI, RowOld, RowNoIso, RowDE >> } }

IsoInputs == {"CH", "ch", "Ch", "DE", "de", "CI", "XX"}
BfsInputs == { StrCell("8100"), StrCell("8207"), StrCell("8310"), StrCell("9999"),
               StrCell(""), IntCell(8100), IntCell(8207), IntCell(8310), IntCell(9999),
               IntCell(0), NoCell }
Queries == {"", "Schweiz", "SCHWEIZ", "Schw", "Suisse", "sch", "land", "xyz"}
Languages == Langs \cup {"xx", "DE", ""}

Call(op, params, result) == [op |-> op, params |-> params, result |-> result]

InitCountry ==
    /\ args = << >>
    /\ denied = {}
    /\ fs = NoTree
    /\ today = 1
    /\ api = NoApi
    /\ last = NoLast
    /\ calls = 0
    /\ hist = << >>
    /\ pc = Idle
    /\ tl = NoLocals
    /\ \E asset \in CountryAssets : snap = import_COUNTRY_CODES(asset)
    /\ out = << >>

GetCountry ==
    /\ \E iso_code \in IsoInputs :
          out' = << Call("get_country", [iso_code |-> iso_code],
                         get_country(snap, iso_code)) >>
    /\ UNCHANGED <<args, api, fs, denied, today, last, calls, hist, pc, tl, snap>>

GetCountryByBfs ==
    /\ \E bfs_code \in BfsInputs :
          out' = << Call("get_country_by_bfs", [bfs_code |-> bfs_code],
                         get_country_by_bfs(snap, bfs_code)) >>
    /\ UNCHANGED <<args, api, fs, denied, today, last, calls, hist, pc, tl, snap>>

GetAllCountries ==
    /\ out' = << Call("get_all_countries", << >>, get_all_countries(snap)) >>
    /\ UNCHANGED <<args, api, fs, denied, today, last, calls, hist, pc, tl, snap>>

SearchCountries ==
    /\ \E query \in Queries, language \in Languages :
          out' = << Call("search_countries", [query |-> query, language |-> language],
                         search_countries(snap, query, language)) >>
    /\ UNCHANGED <<args, api, fs, denied, today, last, calls, hist, pc, tl, snap>>

NextCountry ==
    \/ GetCountry
    \/ GetCountryByBfs
    \/ GetAllCountries
    \/ SearchCountries

SpecCountry == InitCountry /\ [][NextCountry]_vars

\* C21: a search in a language that is none of de, fr, it, en returns no
\* record, whatever the query.
C21_UnknownLanguageNeverMatches ==
    (/\ out # << >>
     /\ out[1].op = "search_countries"
     /\ out[1].params.language \notin Langs) =>
        out[1].result = << >>

\* int(text) of a BFS code.
py_int(text) ==
    CASE text = "8100" -> 8100
      [] text = "8207" -> 8207
      [] text = "8310" -> 8310
      [] text = "9999" -> 9999
      [] OTHER -> 0

\* The entry under key c carries the BFS code given as text or as number.
Carries(c, bfs_code) ==
    \/ bfs_code.t = "str" /\ snap[c].bfs_code = bfs_code.s
    \/ bfs_code.t = "int" /\ py_int(snap[c].bfs_code) = bfs_code.n

ZipStreetsTwo ==
    ZipFile(<<Member("other.csv", 0, "plzOther"), Member(StreetsCsv.base, 0, "strNew")>>)

FallbackZips == {Absent, Garbage, ZipNoCsv, ZipStreetsOld, ZipStreets, ZipStreetsTwo}
FallbackCsvs == {Absent, Garbage, ZipStreets, CsvFile(0, "strOld"), CsvFile(1, "strSeed")}

FallbackArgs ==
    { a \in ArgSet : /\ a.kind = "streets"
                     /\ a.model_version = "v1"
                     /\ a.reference_date = 0
                     /\ a.cache_dir = None }

InitFallback ==
    /\ args \in FallbackArgs
    /\ denied \in {{}, {SourcesDirOf(args)}}
    /\ \E z \in FallbackZips, c \in FallbackCsvs :
          fs = [d \in Dirs |->
                  [f \in Files |->
                      IF d # SourcesDirOf(args) THEN Absent
                      ELSE IF f = StreetsZip THEN z
                      ELSE IF f = StreetsCsv THEN c
                      ELSE Absent]]
    /\ today = 1
    /\ api = NewAPI(args, today).api
    /\ last = NoLast
    /\ calls = 0
    /\ hist = NoHist
    /\ pc = Idle
    /\ tl = NoLocals
    /\ snap = <<>>
    /\ out = <<>>

\* self._fetch_fallback()
FetchFallback ==
    /\ calls < MaxCalls
    /\ LET r == StreetsAPI_fetch_fallback(api, fs, denied)
       IN  last' = [op |-> "_fetch_fallback", err |-> r.err, msg |-> r.msg, value |-> <<>>,
                    events |-> r.events, remote |-> None, text |-> r.text]
    /\ calls' = calls + 1
    /\ UNCHANGED <<args, api, fs, denied, today, hist, pc, tl, snap, out>>

NextFallback == FetchFallback

SpecFallback == InitFallback /\ [][NextFallback]_vars

\* The cached ZIP can be used: it is there, it is an archive and it holds a
\* CSV member.
ZipUsable ==
    LET zip == fs[api.sources_dir][StreetsZip]
    IN  /\ api.sources_dir \notin denied
        /\ zip.t = "zip"
        /\ \E i \in 1..Len(zip.members) : EndsWithCsv(zip.members[i].name)

\* The extracted CSV can be used: it is there and it is text.
CsvUsable ==
    /\ api.sources_dir \notin denied
    /\ fs[api.sources_dir][StreetsCsv].t = "csv"

FirstCsvMember(zip) ==
    zip.members[CHOOSE i \in 1..Len(zip.members) :
                    /\ EndsWithCsv(zip.members[i].name)
                    /\ \A j \in 1..(i - 1) : ~EndsWithCsv(zip.members[j].name)]

\* C23: the fallback of StreetsAPI returns the CSV of the cached ZIP whenever
\* the ZIP is usable, and then does not read the extracted CSV; it reads the
\* extracted CSV only after the ZIP attempt failed, and returns it when it
\* is usable; it raises NoFallbackDataError only when both attempts failed.
C23_ZipFirstThenExtractedCsv ==
    last.op = "_fetch_fallback" =>
        /\ ZipUsable =>
              /\ last.err = OK
              /\ last.text = DecodeUtf8(FirstCsvMember(fs[api.sources_dir][StreetsZip]).data)
              /\ Len(last.events) = 1
        /\ ~ZipUsable => Len(last.events) = 2
        /\ (~ZipUsable /\ CsvUsable) =>
              /\ last.err = OK
              /\ last.text = DecodeUtf8Sig(fs[api.sources_dir][StreetsCsv])
        /\ last.err = "NoFallbackDataError" => (~ZipUsable /\ ~CsvUsable)

\* Both files are usable and differ: the ZIP's CSV is returned.
C23_Witness ==
    /\ last.op = "_fetch_fallback"
    /\ ZipUsable
    /\ CsvUsable
    /\ last.err = OK
    /\ last.text.body = "strOld"
    /\ fs[api.sources_dir][StreetsCsv].body = "strSeed"

====
